---- MODULE Spec2Model ----
(***************************************************************************)
(* Procedural animation scripts of the rig repository:                     *)
(*   scripts/animate_baby_camel_walk.py    (quadruped walk cycle)          *)
(*   scripts/animate_bouncing_ball_walk.py (damped bounce)                 *)
(* with the rest poses of scripts/create_baby_camel.py and                 *)
(* scripts/create_bouncing_ball.py.                                        *)
(*                                                                         *)
(* Numbers.  Lengths, scales and radians are fixed-point integers in       *)
(* millionths (Unit = 1.0).  Angles that are arguments of math.sin and     *)
(* math.cos are counted in steps of pi/30 (the walk phase advances one     *)
(* step per frame), and math.sin / math.cos are the tables SinTable and    *)
(* CosTable of the library values at those arguments, rounded to the       *)
(* nearest millionth.  Bounce times are counted in ticks of 1/24000 s      *)
(* (1000 ticks per frame at 24 fps).                                       *)
(***************************************************************************)
EXTENDS Integers, Sequences, FiniteSets, TLC

(* ------------------------------ numbers -------------------------------- *)

Unit == 1000000

Max(a, b) == IF a >= b THEN a ELSE b

Abs(a) == IF a >= 0 THEN a ELSE 0 - a

\* v * (n / d) for a literal decimal factor n/d, truncated toward zero
Scaled(v, n, d) == IF v >= 0 THEN (v * n) \div d ELSE 0 - (((0 - v) * n) \div d)

\* floor(a * b / c) for a >= 0 without leaving 32 bits
MulDiv(a, b, c) == (a \div c) * b + ((a % c) * b) \div c

\* one doubling step: from <<q, r>> with a * (b \div 2) = q * c + r to the
\* pair for a * b, d being 2 * r plus a % c for odd b
Doubled(h, d, a, b, c) == <<2 * h[1] + (IF b % 2 = 1 THEN a \div c ELSE 0) + d \div c, d % c>>

\* <<q, r>> with a * b = q * c + r and 0 <= r < c, by doubling, for products
\* beyond 32 bits (a, b >= 0, c > 0)
RECURSIVE MulQuotRem(_, _, _)
MulQuotRem(a, b, c) ==
  IF b = 0 THEN <<0, 0>>
  ELSE CHOOSE qr \in UNION {{Doubled(h, d, a, b, c) :
                               d \in {2 * h[2] + (IF b % 2 = 1 THEN a % c ELSE 0)}} :
                             h \in {MulQuotRem(a, b \div 2, c)}} : TRUE

\* floor(a * b / c) of a product beyond 32 bits
MulDivWide(a, b, c) == MulQuotRem(a, b, c)[1]

\* math.pi, in millionths
Pi == 3141593

\* math.pi, in angle steps of pi/30
PiSteps == 30

SinTable ==
  <<
     0, 104528, 207912, 309017, 406737, 500000, 587785, 669131,
     743145, 809017, 866025, 913545, 951057, 978148, 994522, 1000000,
     994522, 978148, 951057, 913545, 866025, 809017, 743145, 669131,
     587785, 500000, 406737, 309017, 207912, 104528, 0, -104528,
     -207912, -309017, -406737, -500000, -587785, -669131, -743145, -809017,
     -866025, -913545, -951057, -978148, -994522, -1000000, -994522, -978148,
     -951057, -913545, -866025, -809017, -743145, -669131, -587785, -500000,
     -406737, -309017, -207912, -104528, 0, 104528, 207912, 309017,
     406737, 500000, 587785, 669131, 743145, 809017, 866025, 913545,
     951057, 978148, 994522, 1000000, 994522, 978148, 951057, 913545,
     866025, 809017, 743145, 669131, 587785, 500000, 406737, 309017,
     207912, 104528, 0, -104528, -207912, -309017, -406737, -500000,
     -587785, -669131, -743145, -809017, -866025, -913545, -951057, -978148,
     -994522, -1000000, -994522, -978148, -951057, -913545, -866025, -809017,
     -743145, -669131, -587785, -500000, -406737, -309017, -207912, -104528,
     0
  >>

CosTable ==
  <<
     1000000, 994522, 978148, 951057, 913545, 866025, 809017, 743145,
     669131, 587785, 500000, 406737, 309017, 207912, 104528, 0,
     -104528, -207912, -309017, -406737, -500000, -587785, -669131, -743145,
     -809017, -866025, -913545, -951057, -978148, -994522, -1000000, -994522,
     -978148, -951057, -913545, -866025, -809017, -743145, -669131, -587785,
     -500000, -406737, -309017, -207912, -104528, 0, 104528, 207912,
     309017, 406737, 500000, 587785, 669131, 743145, 809017, 866025,
     913545, 951057, 978148, 994522, 1000000, 994522, 978148, 951057,
     913545, 866025, 809017, 743145, 669131, 587785, 500000, 406737,
     309017, 207912, 104528, 0, -104528, -207912, -309017, -406737,
     -500000, -587785, -669131, -743145, -809017, -866025, -913545, -951057,
     -978148, -994522, -1000000, -994522, -978148, -951057, -913545, -866025,
     -809017, -743145, -669131, -587785, -500000, -406737, -309017, -207912,
     -104528, 0, 104528, 207912, 309017, 406737, 500000, 587785,
     669131, 743145, 809017, 866025, 913545, 951057, 978148, 994522,
     1000000
  >>

\* math.sin(k * pi / 30), k in 0..120
Sin(k) == SinTable[k + 1]

\* math.cos(k * pi / 30), k in 0..120
Cos(k) == CosTable[k + 1]

\* math.radians(deg) for the angles the scene uses
Radians(deg) ==
  CASE deg = 0  -> 0
    [] deg = 20 -> 349066
    [] deg = 30 -> 523599
    [] deg = 45 -> 785398
    [] deg = 90 -> 1570796

Neg(v) == 0 - v

(* ------------------------- the camel scene ------------------------------ *)

\* bound: how many objects (or whole legs) a scene may lack
MaxAbsent == 1

LegIds == {"FL", "FR", "BL", "BR"}

LegIndex == 0 .. 3

LegUpperName(i) == <<"LegUpper_0", "LegUpper_1", "LegUpper_2", "LegUpper_3">>[i + 1]

LegLowerName(i) == <<"LegLower_0", "LegLower_1", "LegLower_2", "LegLower_3">>[i + 1]

HoofName(i) == <<"Hoof_0", "Hoof_1", "Hoof_2", "Hoof_3">>[i + 1]

LegPartNames(i) == {LegUpperName(i), LegLowerName(i), HoofName(i)}

LegParts == UNION {LegPartNames(i) : i \in LegIndex}

NonLegParts ==
  {"Body", "Head", "Neck", "Tail", "Hump", "Eye_L", "Eye_R", "Ear_L", "Ear_R", "Snout"}

Parts == NonLegParts \cup LegParts

Objects == Parts \cup {"CamelRig"}

\* the leg positions of create_baby_camel, by leg index
LegPositionX(i) == IF i \in {0, 1} THEN 500000 ELSE Neg(500000)

LegPositionY(i) == IF i \in {0, 2} THEN Neg(400000) ELSE 400000

\* location of every part as create_baby_camel leaves it
RestLocation ==
  [p \in Parts |->
     CASE p = "Body"  -> <<0, 0, 1200000>>
       [] p = "Neck"  -> <<800000, 0, 1500000>>
       [] p = "Head"  -> <<1200000, 0, 1900000>>
       [] p = "Snout" -> <<1450000, 0, 1850000>>
       [] p = "Eye_L" -> <<1250000, Neg(150000), 2050000>>
       [] p = "Eye_R" -> <<1250000, 150000, 2050000>>
       [] p = "Ear_L" -> <<1100000, Neg(250000), 2150000>>
       [] p = "Ear_R" -> <<1100000, 250000, 2150000>>
       [] p = "Hump"  -> <<Neg(200000), 0, 1800000>>
       [] p = "Tail"  -> <<Neg(1000000), 0, 1000000>>
       [] \E i \in LegIndex : p = LegUpperName(i) ->
            LET i == CHOOSE j \in LegIndex : p = LegUpperName(j)
            IN  <<LegPositionX(i), LegPositionY(i), 850000>>
       [] \E i \in LegIndex : p = LegLowerName(i) ->
            LET i == CHOOSE j \in LegIndex : p = LegLowerName(j)
            IN  <<LegPositionX(i), LegPositionY(i), 300000>>
       [] \E i \in LegIndex : p = HoofName(i) ->
            LET i == CHOOSE j \in LegIndex : p = HoofName(j)
            IN  <<LegPositionX(i), LegPositionY(i), 50000>>]

\* rotation_euler of every part as create_baby_camel leaves it
RestRotation ==
  [p \in Parts |->
     CASE p = "Neck"  -> <<0, Radians(30), 0>>
       [] p = "Snout" -> <<0, Radians(90), 0>>
       [] p = "Ear_L" -> <<Neg(Radians(20)), 0, Radians(30)>>
       [] p = "Ear_R" -> <<Neg(Radians(20)), 0, Neg(Radians(30))>>
       [] p = "Tail"  -> <<0, Neg(Radians(45)), 0>>
       [] OTHER       -> <<0, 0, 0>>]

\* what a scene can lack: any single object, or a leg with all its parts
AbsentUnits == {{o} : o \in Objects} \cup {LegPartNames(i) : i \in LegIndex}

RECURSIVE AbsentSets(_)
AbsentSets(k) ==
  IF k = 0 THEN {{}}
  ELSE LET prev == AbsentSets(k - 1)
       IN  prev \cup {s \cup u : s \in prev, u \in AbsentUnits}

Scenes == {Objects \ a : a \in AbsentSets(MaxAbsent)}

(* ------------------------------ state ----------------------------------- *)

\* state of the camel scene (animate_baby_camel_walk.py)
VARIABLES
  present,         \* bpy.data.objects of the camel scene (names)
  wpc,             \* position of animate_baby_camel_walk.main
  frame,           \* scene.frame_current
  frame_start,     \* scene.frame_start
  frame_end,       \* scene.frame_end
  frame_range,     \* the frames of the frame loop in the order it visits them
  run,             \* which run of the script on the saved file this is
  legs,            \* animate_direct: legs, leg id -> [upper, lower, hoof] or []
  location,        \* obj.location of every part
  rotation_euler,  \* obj.rotation_euler of every part
  keys,            \* keyframes: frame -> object -> data_path -> value
  first_keys,      \* the keyframes the first run left
  error            \* an attribute of a missing object (None) was used

walkVars ==
  <<present, wpc, frame, frame_start, frame_end, frame_range, run, legs, location,
    rotation_euler, keys, first_keys, error>>

\* state of the ball scene (animate_bouncing_ball_walk.py)
VARIABLES
  ball_present,      \* whether bpy.data.objects has "Ball"
  bpc,               \* position of create_bounce_animation
  ball,              \* the ball: location, rotation_euler, scale
  time,              \* local: time of the frame, in ticks
  bounce_time,       \* local: time into the active fall, in ticks
  remaining_height,  \* local: peak height of the fall being examined
  current_time,      \* local: time not yet assigned to a fall, in ticks
  bounce_index,      \* rebounds passed by the while loop in this frame
  iterations,        \* bodies of the while loop run in this frame
  decomp,            \* frame -> what the while loop ended with
  ball_keys,         \* frame -> keyframed location, rotation_euler, scale
  first_ball_keys    \* the keyframes the first run left

bounceVars ==
  <<ball_present, bpc, ball, time, bounce_time, remaining_height, current_time,
    bounce_index, iterations, decomp, ball_keys, first_ball_keys>>

\* walk variables that only the walk script writes
walkOnlyVars == <<present, wpc, legs, location, rotation_euler, keys, first_keys, error>>

\* state of setup_camera_tracking (both animation scripts)
VARIABLES
  camera_present,   \* whether bpy.data.objects has "Camera"
  cpc,              \* position of setup_camera_tracking
  camera_frame,     \* local: frame of its loop
  camera_location,  \* camera.location
  constraints,      \* camera.constraints: the targets of its TRACK_TO constraints
  camera_keys       \* frame -> keyframed camera location, NoKey if none

cameraVars ==
  <<camera_present, cpc, camera_frame, camera_location, constraints, camera_keys>>

\* state of upload_to_roblox.py
VARIABLES
  upc,       \* position of upload_workflow and of wait_for_asset
  item,      \* which of the five uploads upload_workflow is at, 0 before the first
  tex_file,  \* the candidate found for the item (its number), 0 if none
  op,        \* what upload_asset returned
  elapsed,   \* wait_for_asset: time.time() - start, in seconds
  status,    \* wait_for_asset: what get_operation_status returned last
  asset_id,  \* what wait_for_asset returned
  assets,    \* results["assets"]: name -> asset id, None if no entry
  uploads    \* the names upload_asset was called for, in the order of the calls

uploadVars == <<upc, item, tex_file, op, elapsed, status, asset_id, assets, uploads>>

\* state of batch_render.py
VARIABLES
  rpc,           \* position of render_animation
  start_frame,   \* argument of render_animation, NotGiven for None
  end_frame,     \* argument of render_animation, NotGiven for None
  frame_step,    \* argument of render_animation, then scene.frame_step
  total_frames,  \* local: the total printed
  rendered       \* the frames bpy.ops.render.render(animation=True) has written

renderVars == <<rpc, start_frame, end_frame, frame_step, total_frames, rendered>>

\* what the animation scripts never touch
toolVars == <<uploadVars, renderVars>>

\* the range backwards: reversed(range(1, n + 1))
Ascending_Reversed(n) == [k \in 1 .. n |-> n + 1 - k]

\* range(1, n + 1) in the order of the for loop
Ascending(n) == [k \in 1 .. n |-> k]

\* position of frame f in the order r
IndexIn(r, f) == CHOOSE k \in 1 .. Len(r) : r[k] = f

\* for frame in range(1, 121)
BounceFrames == 1 .. 120

\* no decomposition recorded for a frame yet
NoDecomp == [remaining_height |-> 0 - 1, bounce_time |-> 0 - 1, bounce_index |-> 0 - 1,
             iterations |-> 0 - 1, settled |-> FALSE]

\* the ball as create_bouncing_ball leaves it
RestBall ==
  [location |-> <<0, 0, 2000000>>, rotation_euler |-> <<0, 0, 0>>, scale |-> <<Unit, Unit, Unit>>]

\* for frame in range(1, 61)
WalkFrames == 1 .. 60

DataPaths == {"location", "rotation_euler"}

NoKey == <<>>

NoKeys == [p \in Parts |-> [d \in DataPaths |-> NoKey]]

\* the keyframe of object p on data_path d at frame f, NoKey if none
Key(p, d, f) == keys[f][p][d]

\* some frame of lo .. hi has a keyframe of p on d
KeyedIn(p, d, lo, hi) == \E g \in lo .. hi : keys[g][p][d] # NoKey

\* the last frame of lo .. hi with a keyframe of p on d, by halving; there is one
RECURSIVE LastKeyed(_, _, _, _)
LastKeyed(p, d, lo, hi) ==
  IF lo = hi THEN lo
  ELSE IF KeyedIn(p, d, (lo + hi + 1) \div 2, hi) THEN LastKeyed(p, d, (lo + hi + 1) \div 2, hi)
  ELSE LastKeyed(p, d, lo, (lo + hi + 1) \div 2 - 1)

\* the first frame of lo .. hi with a keyframe of p on d, by halving; there is one
RECURSIVE FirstKeyed(_, _, _, _)
FirstKeyed(p, d, lo, hi) ==
  IF lo = hi THEN lo
  ELSE IF KeyedIn(p, d, lo, (lo + hi) \div 2) THEN FirstKeyed(p, d, lo, (lo + hi) \div 2)
  ELSE FirstKeyed(p, d, (lo + hi) \div 2 + 1, hi)

\* the last keyed frame before f, 0 if none
PrevKeyed(p, d, f) == IF KeyedIn(p, d, 1, f - 1) THEN LastKeyed(p, d, 1, f - 1) ELSE 0

\* the first keyed frame after f, 0 if none
NextKeyed(p, d, f) == IF KeyedIn(p, d, f + 1, 60) THEN FirstKeyed(p, d, f + 1, 60) ELSE 0

\* a value between two keys: equal components stay, the mean stands for the
\* interpolated value of the others
Between(a, b) == [c \in 1 .. 3 |-> IF a[c] = b[c] THEN a[c] ELSE (a[c] + b[c]) \div 2]

\* the curve between the keys at frames before and after (0: no such key),
\* held constant before the first and after the last key
Curve(before, after, kb, ka) ==
  IF after = 0 THEN kb ELSE IF before = 0 THEN ka ELSE Between(kb, ka)

\* scene.frame_set(f) on property d of part p, whose value is cur: without
\* keyframes the property keeps its value, otherwise it takes its curve's value
Evaluated(p, d, f, cur) ==
  IF keys[f][p][d] # NoKey THEN keys[f][p][d]
  ELSE LET before == PrevKeyed(p, d, f)
           after == NextKeyed(p, d, f)
       IN  IF before = 0 /\ after = 0 THEN cur
           ELSE Curve(before, after, keys[Max(before, 1)][p][d], keys[Max(after, 1)][p][d])

(* --------------------------- animate_direct ----------------------------- *)

\* the guard without the hoof: "if upper and lower"
LegComplete_IgnoresHoof(i, objs) ==
  /\ LegUpperName(i) \in objs
  /\ LegLowerName(i) \in objs

\* for i in range(4): the guard "if upper and lower and hoof"
LegComplete(i, objs) ==
  /\ LegUpperName(i) \in objs
  /\ LegLowerName(i) \in objs
  /\ HoofName(i) \in objs

\* the key of legs that index i is stored under
LegIdOfIndex(i) == <<"FL", "FR", "BL", "BR">>[i + 1]

\* legs after the lookup loop
BuildLegs(objs) ==
  [id \in LegIds |->
     LET i == CHOOSE j \in LegIndex : LegIdOfIndex(j) = id
     IN  IF LegComplete(i, objs)
         THEN <<LegUpperName(i), LegLowerName(i), HoofName(i)>>
         ELSE <<>>]

\* phase = (frame / 30.0) * math.pi, in angle steps
Phase(f) == f

\* forward_offset = (frame / 60.0) * 3.0
ForwardOffset(f) == (f * 3 * Unit) \div 60

\* pair 2 a quarter cycle after pair 1
LegPairs_QuarterCycle(phase) ==
  << [pair |-> <<"FL", "BR">>, leg_phase |-> phase],
     [pair |-> <<"FR", "BL">>, leg_phase |-> phase + (PiSteps \div 2)] >>

\* leg_pairs
LegPairs(phase) ==
  << [pair |-> <<"FL", "BR">>, leg_phase |-> phase],
     [pair |-> <<"FR", "BL">>, leg_phase |-> phase + PiSteps] >>

\* leg_base_x
LegBaseX(id) == IF id \in {"FL", "FR"} THEN 500000 ELSE Neg(500000)

\* lift without the clamp: math.sin(leg_phase) * leg_height
LegLift_NoClamp(leg_phase) == Scaled(Sin(leg_phase), 15, 100)

\* lift = max(0, math.sin(leg_phase)) * leg_height
LegLift(leg_phase) == Scaled(Max(0, Sin(leg_phase)), 15, 100)

\* the swing in phase with the lift: math.sin for math.cos
LegSwing_InPhaseWithLift(leg_phase) == Scaled(Sin(leg_phase), 3, 10)

\* swing = math.cos(leg_phase) * leg_swing
LegSwing(leg_phase) == Scaled(Cos(leg_phase), 3, 10)

\* upper.rotation_euler.y = math.sin(leg_phase) * 0.2
UpperRotation(leg_phase) == Scaled(Sin(leg_phase), 2, 10)

\* lower.rotation_euler.y = -math.sin(leg_phase) * 0.15
LowerRotation(leg_phase) == Scaled(Neg(Sin(leg_phase)), 15, 100)

\* a hoof that stays on the ground while the leg above it is lifted
LegPartZ_HoofPlanted(r, lift) ==
  CASE r = 1 -> 850000 + lift
    [] r = 2 -> 300000 + lift
    [] r = 3 -> 50000

\* z the leg part of role r (1 upper, 2 lower, 3 hoof) is set to
LegPartZ(r, lift) == <<850000, 300000, 50000>>[r] + lift

\* the hump keeps its rest x: it is left behind
PartX_HumpLeftBehind(p, f) ==
  CASE p = "Body"             -> ForwardOffset(f)
    [] p = "Head"             -> 1200000 + ForwardOffset(f)
    [] p = "Neck"             -> 800000 + ForwardOffset(f)
    [] p = "Tail"             -> Neg(1000000) + ForwardOffset(f)
    [] p = "Hump"             -> Neg(200000)
    [] p \in {"Eye_L", "Eye_R"} -> 1250000 + ForwardOffset(f)
    [] p \in {"Ear_L", "Ear_R"} -> 1100000 + ForwardOffset(f)
    [] p = "Snout"            -> 1450000 + ForwardOffset(f)

\* x written to the non-leg part p at frame f
PartX(p, f) ==
  CASE p = "Body"             -> ForwardOffset(f)
    [] p = "Head"             -> 1200000 + ForwardOffset(f)
    [] p = "Neck"             -> 800000 + ForwardOffset(f)
    [] p = "Tail"             -> Neg(1000000) + ForwardOffset(f)
    [] p = "Hump"             -> Neg(200000) + ForwardOffset(f)
    [] p \in {"Eye_L", "Eye_R"} -> 1250000 + ForwardOffset(f)
    [] p \in {"Ear_L", "Ear_R"} -> 1100000 + ForwardOffset(f)
    [] p = "Snout"            -> 1450000 + ForwardOffset(f)

\* an incremental integrator: each frame moves the part one frame's step on
\* from where it is, obj.location.x += 3.0 / 60
PartLocation_Incremental(p, f, loc) ==
  CASE p = "Body" -> <<loc[1] + ForwardOffset(1), loc[2], 1200000 + Scaled(Sin(Phase(f) * 2), 1, 10)>>
    [] p = "Head" -> <<loc[1] + ForwardOffset(1), loc[2], 1900000 + Scaled(Sin(Phase(f) * 2), 8, 100)>>
    [] OTHER      -> <<loc[1] + ForwardOffset(1), loc[2], loc[3]>>

\* the bob at the gait frequency: math.sin(phase) for math.sin(phase * 2)
PartLocation_BobOncePerCycle(p, f, loc) ==
  CASE p = "Body" -> <<PartX(p, f), loc[2], 1200000 + Scaled(Sin(Phase(f)), 1, 10)>>
    [] p = "Head" -> <<PartX(p, f), loc[2], 1900000 + Scaled(Sin(Phase(f)), 8, 100)>>
    [] OTHER      -> <<PartX(p, f), loc[2], loc[3]>>

\* location of the non-leg part p after its assignments at frame f
PartLocation(p, f, loc) ==
  CASE p = "Body" -> <<PartX(p, f), loc[2], 1200000 + Scaled(Sin(Phase(f) * 2), 1, 10)>>
    [] p = "Head" -> <<PartX(p, f), loc[2], 1900000 + Scaled(Sin(Phase(f) * 2), 8, 100)>>
    [] OTHER      -> <<PartX(p, f), loc[2], loc[3]>>

\* the sway added to the angle the part has: rotation_euler.y += ..., .z += ...
PartRotation_Accumulating(p, f, rot) ==
  CASE p = "Neck" -> <<rot[1], rot[2] + Scaled(Sin(Phase(f) * 2), 1, 10), rot[3]>>
    [] p = "Tail" -> <<rot[1], rot[2], rot[3] + Scaled(Sin(Phase(f) * 2), 3, 10)>>
    [] OTHER      -> rot

\* rotation_euler of the non-leg part p after its assignments at frame f
PartRotation(p, f, rot) ==
  CASE p = "Neck" -> <<rot[1], Radians(30) + Scaled(Sin(Phase(f) * 2), 1, 10), rot[3]>>
    [] p = "Tail" -> <<rot[1], rot[2], Scaled(Sin(Phase(f) * 2), 3, 10)>>
    [] OTHER      -> rot

\* the non-leg parts whose rotation_euler is keyframed
RotationKeyed == {"Neck", "Tail"}

\* the legs in the order the pair loop reaches them, with their phase
LegOrder(phase) ==
  [pos \in 1 .. 4 |->
     LET pr == LegPairs(phase)[(pos + 1) \div 2]
     IN  [id |-> pr.pair[2 - (pos % 2)], leg_phase |-> pr.leg_phase]]

\* a leg animated only when the other leg of its diagonal pair is there too
LegAnimated_WholePair(id, lg) ==
  /\ id \in DOMAIN lg
  /\ lg[id] # <<>>
  /\ lg[CASE id = "FL" -> "BR" [] id = "BR" -> "FL" [] id = "FR" -> "BL" [] id = "BL" -> "FR"] # <<>>

\* "if leg_id in legs and legs[leg_id]"
LegAnimated(id, lg) == id \in DOMAIN lg /\ lg[id] # <<>>

\* the first leg of the pair loop that unpacks a missing object, 0 if none
FailPos(lg, objs, order) ==
  LET bad == {pos \in 1 .. 4 :
                /\ LegAnimated(order[pos].id, lg)
                /\ \E r \in 1 .. 3 : lg[order[pos].id][r] \notin objs}
  IN  IF bad = {} THEN 0 ELSE CHOOSE pos \in bad : \A q \in bad : pos <= q

\* positions of the pair loop whose body ran to its keyframe_insert calls
LegDone(lg, order, fail) ==
  {pos \in 1 .. 4 : LegAnimated(order[pos].id, lg) /\ (fail = 0 \/ pos < fail)}

\* the last done position that names part p, 0 if none
LegPosOf(p, lg, order, done) ==
  LET ps == {pos \in done : \E r \in 1 .. 3 : lg[order[pos].id][r] = p}
  IN  IF ps = {} THEN 0 ELSE CHOOSE pos \in ps : \A q \in ps : pos >= q

LegRoleOf(p, id, lg) == CHOOSE r \in 1 .. 3 : lg[id][r] = p

\* location of leg part p after the body of the pair loop for entry e
LegLocation(p, e, f, loc, lg) ==
  << LegBaseX(e.id) + ForwardOffset(f) + LegSwing(e.leg_phase),
     loc[2],
     LegPartZ(LegRoleOf(p, e.id, lg), LegLift(e.leg_phase)) >>

\* rotation_euler of leg part p after the body of the pair loop for entry e
LegRotation(p, e, rot, lg) ==
  CASE LegRoleOf(p, e.id, lg) = 1 -> <<rot[1], UpperRotation(e.leg_phase), rot[3]>>
    [] LegRoleOf(p, e.id, lg) = 2 -> <<rot[1], LowerRotation(e.leg_phase), rot[3]>>
    [] OTHER -> rot

\* bpy.ops.object.camera_add(location=(5, -5, 3)) of create_baby_camel
WalkCameraRest == <<5 * Unit, Neg(5 * Unit), 3 * Unit>>

\* bpy.ops.object.camera_add(location=(8, -8, 4)) of create_bouncing_ball
BallCameraRest == <<8 * Unit, Neg(8 * Unit), 4 * Unit>>

\* Python's None
None == "None"

\* the uploads of upload_workflow in their order: the FBX model, then the keys
\* of texture_types
UploadItems == <<"model", "ColorMap", "NormalMap", "RoughnessMap", "MetalnessMap">>

\* results = {"scene": ..., "version": ..., "assets": {}}
NoAssets == [n \in {UploadItems[k] : k \in 1 .. Len(UploadItems)} |-> None]

\* upload_to_roblox.py is not running
UploadIdle ==
  /\ upc = "idle"
  /\ item = 0
  /\ tex_file = 0
  /\ op = None
  /\ elapsed = 0
  /\ status = [ok |-> FALSE, done |-> FALSE, response |-> "absent", error |-> FALSE]
  /\ asset_id = None
  /\ assets = NoAssets
  /\ uploads = <<>>

\* start_frame=None, end_frame=None: the argument was not given (no frame is
\* negative)
NotGiven == 0 - 1

\* batch_render.py is not running
RenderIdle ==
  /\ rpc = "idle"
  /\ start_frame = NotGiven
  /\ end_frame = NotGiven
  /\ frame_step = 1
  /\ total_frames = 0
  /\ rendered = {}

\* neither tool script is running
ToolsIdle == UploadIdle /\ RenderIdle

\* the camera of a scene before setup_camera_tracking: at its place rest when
\* the scene has it, without constraints or keyframes
CameraAt(rest, cams) ==
  /\ camera_present \in cams
  /\ cpc = "idle"
  /\ camera_frame = 0
  /\ camera_location = rest
  /\ constraints = <<>>
  /\ camera_keys = [f \in BounceFrames |-> NoKey]

\* the camel scene and the script before its first statement
WalkScene ==
  /\ present \in Scenes
  /\ wpc = "start"
  /\ frame = 0
  /\ frame_start = 0
  /\ frame_end = 0
  /\ frame_range = Ascending(60)
  /\ run = 1
  /\ legs = [id \in LegIds |-> <<>>]
  /\ location = RestLocation
  /\ rotation_euler = RestRotation
  /\ keys = [f \in WalkFrames |-> NoKeys]
  /\ first_keys = [f \in WalkFrames |-> NoKeys]
  /\ error = FALSE
  /\ ball_present = FALSE
  /\ bpc = "idle"
  /\ ball = RestBall
  /\ time = 0
  /\ bounce_time = 0
  /\ remaining_height = 0
  /\ current_time = 0
  /\ bounce_index = 0
  /\ iterations = 0
  /\ decomp = [f \in BounceFrames |-> NoDecomp]
  /\ ball_keys = [f \in BounceFrames |-> NoKey]
  /\ first_ball_keys = [f \in BounceFrames |-> NoKey]

\* the scene create_baby_camel saved, with its camera
WalkInit == WalkScene /\ CameraAt(WalkCameraRest, {TRUE}) /\ ToolsIdle

\* create_walk_cycle up to the frame loop of animate_direct: the frame range,
\* the rig test (both branches run animate_direct) and the part lookups
CreateWalkCycle ==
  /\ wpc = "start"
  /\ frame_start' = 1
  /\ frame_end' = 60
  /\ frame' = frame_range[1]
  /\ legs' = BuildLegs(present)
  /\ wpc' = "frames"
  /\ UNCHANGED <<present, frame_range, run, location, rotation_euler, keys, first_keys, error>>
  /\ UNCHANGED bounceVars
  /\ UNCHANGED cameraVars
  /\ UNCHANGED toolVars

\* one iteration of "for frame in range(1, 61)": scene.frame_set(frame)
\* re-evaluates the curves written so far, then the parts are posed and keyed
WalkFrame ==
  /\ wpc = "frames"
  /\ frame \in WalkFrames
  /\ \E order \in {LegOrder(Phase(frame))} :
     \E fail \in {FailPos(legs, present, order)} :
     \E legPos \in {[p \in LegParts |-> LegPosOf(p, legs, order, LegDone(legs, order, fail))]} :
     \E written \in {(NonLegParts \cap present) \cup {p \in LegParts : legPos[p] # 0}} :
     \E setLoc \in {[p \in Parts |-> Evaluated(p, "location", frame, location[p])]} :
     \E setRot \in {[p \in Parts |-> Evaluated(p, "rotation_euler", frame, rotation_euler[p])]} :
     \E newLoc \in {[p \in Parts |->
                       IF p \notin written THEN setLoc[p]
                       ELSE IF p \in NonLegParts THEN PartLocation(p, frame, setLoc[p])
                       ELSE LegLocation(p, order[legPos[p]], frame, setLoc[p], legs)]} :
     \E newRot \in {[p \in Parts |->
                       IF p \notin written THEN setRot[p]
                       ELSE IF p \in NonLegParts THEN PartRotation(p, frame, setRot[p])
                       ELSE LegRotation(p, order[legPos[p]], setRot[p], legs)]} :
       /\ location' = newLoc
       /\ rotation_euler' = newRot
       /\ keys' = [keys EXCEPT ![frame] =
                     [p \in Parts |->
                        [d \in DataPaths |->
                           IF p \notin written THEN keys[frame][p][d]
                           ELSE IF d = "location" THEN newLoc[p]
                           ELSE IF p \in RotationKeyed
                                   \/ (p \in LegParts /\ LegRoleOf(p, order[legPos[p]].id, legs) \in {1, 2})
                           THEN newRot[p]
                           ELSE keys[frame][p][d]]]]
       /\ error' = (fail # 0)
       /\ IF fail # 0 THEN wpc' = "aborted" /\ frame' = frame
          ELSE IF IndexIn(frame_range, frame) = Len(frame_range)
          THEN wpc' = "done" /\ frame' = frame
          ELSE wpc' = "frames" /\ frame' = frame_range[IndexIn(frame_range, frame) + 1]
  /\ UNCHANGED <<present, frame_start, frame_end, frame_range, run, legs, first_keys>>
  /\ UNCHANGED bounceVars
  /\ UNCHANGED cameraVars
  /\ UNCHANGED toolVars

\* runs of a script on the same file
MaxRuns == 2

\* the frames 1 .. n from the last to the first
Backwards(n) == [k \in 1 .. n |-> n + 1 - k]

\* two workers taking turns, one on 1 .. n/2 and one on n/2+1 .. n, each upwards
Interleaved(n) == [k \in 1 .. n |-> IF k % 2 = 1 THEN (k + 1) \div 2 ELSE n \div 2 + k \div 2]

\* the odd frames upwards, then the even frames, each between two keyed frames
OddsThenEvens(n) == [k \in 1 .. n |-> IF k <= n \div 2 THEN 2 * k - 1 ELSE 2 * (k - n \div 2)]

\* orders other than range(1, n + 1) in which the frame loop may visit 1 .. n
FrameOrders(n) == {Backwards(n), Interleaved(n), OddsThenEvens(n)}

NextWalk == CreateWalkCycle \/ WalkFrame

\* the walk is run once more on the scene as create_baby_camel left it, its
\* frame loop visiting the frames in another order
WalkReorder ==
  /\ wpc = "done"
  /\ run < MaxRuns
  /\ run' = run + 1
  /\ first_keys' = IF run = 1 THEN keys ELSE first_keys
  /\ frame_range' \in FrameOrders(60)
  /\ location' = RestLocation
  /\ rotation_euler' = RestRotation
  /\ keys' = [f \in WalkFrames |-> NoKeys]
  /\ wpc' = "start"
  /\ UNCHANGED <<present, frame, frame_start, frame_end, legs, error>>
  /\ UNCHANGED bounceVars
  /\ UNCHANGED cameraVars
  /\ UNCHANGED toolVars

\* main has saved the file (bpy.ops.wm.save_mainfile) and the script is run on
\* it again: the objects and their keyframes are as the run before left them
WalkRerun ==
  /\ wpc = "done"
  /\ run < MaxRuns
  /\ run' = run + 1
  /\ first_keys' = IF run = 1 THEN keys ELSE first_keys
  /\ wpc' = "start"
  /\ UNCHANGED <<present, frame, frame_start, frame_end, frame_range, legs, location,
                 rotation_euler, keys, error>>
  /\ UNCHANGED bounceVars
  /\ UNCHANGED cameraVars
  /\ UNCHANGED toolVars

(* --------------------------- the ball scene ----------------------------- *)

\* time resolution: ticks per second
TicksPerSecond == 24000

\* fps
Fps == 24

\* gravity = 9.8, in tenths
GravityTenths == 98

\* initial_height = 2.0
InitialHeight == 2000000

\* bounce_damping = 0.7, in hundredths
DampingHundredths == 70

\* forward_speed = 3.0
ForwardSpeed == 3

\* height = max(0.5, height): the ball radius
BallRadius == 500000

\* the literal 0.01 the loop and the height computation compare with
SettleThreshold == 10000

\* impact_threshold = 0.6
ImpactThreshold == 600000

RECURSIVE SqrtSearch(_, _, _)
SqrtSearch(n, lo, hi) ==
  IF lo >= hi THEN lo
  ELSE LET mid == (lo + hi + 1) \div 2
       IN  IF mid * mid <= n THEN SqrtSearch(n, mid, hi) ELSE SqrtSearch(n, lo, mid - 1)

\* math.sqrt on non-negative integers, rounded down
ISqrt(n) == SqrtSearch(n, 0, 46340)

\* time of a looping animation: (frame % 60) / fps
Time_Looping(f) == ((f % 60) * TicksPerSecond) \div Fps

\* time = frame / fps, in ticks
Time(f) == (f * TicksPerSecond) \div Fps

\* ball.location.x = time * forward_speed
BallX(t) == t * ((ForwardSpeed * Unit) \div TicksPerSecond)

\* fall_time = math.sqrt(2 * remaining_height / gravity), in ticks:
\* ticks^2 = 2 * h * TicksPerSecond^2 / (gravity * Unit) = h * 11520 / 98
FallTime(h) ==
  ISqrt(MulDiv(h, 2 * 10 * ((TicksPerSecond \div 1000) * (TicksPerSecond \div 1000)), GravityTenths))

\* remaining_height *= bounce_damping
Rebound_SingleDamping(h) == MulDiv(h, DampingHundredths, 100)

\* remaining_height *= bounce_damping ** 2
Rebound(h) == MulDiv(h, DampingHundredths * DampingHundredths, 10000)

\* a settle test that no height passes
Settles_Never(h) == h < 0

\* "if remaining_height < 0.01": the ball settled
Settles(h) == h < SettleThreshold

\* 0.5 * gravity * bounce_time ** 2:
\* 4.9 * t^2 * Unit / TicksPerSecond^2 = t^2 * 49 / 5760
FallDistance(t) ==
  MulDiv(t * t, GravityTenths \div 2, 10 * ((TicksPerSecond \div 1000) * (TicksPerSecond \div 1000)))

\* the height without the floor at the ball radius
Height_NoFloor(h, t) ==
  IF h > SettleThreshold THEN h - FallDistance(t) ELSE BallRadius

\* the rising half of the parabola: from the floor at the start of the epoch to
\* the peak at its end
Height_RisingHalf(h, t) ==
  IF h > SettleThreshold THEN Max(BallRadius, h - FallDistance(FallTime(h) - t)) ELSE BallRadius

\* the height floored at the ground instead of at the ball radius
Height_FloorAtGround(h, t) ==
  IF h > SettleThreshold THEN Max(0, h - FallDistance(t)) ELSE BallRadius

\* the height computed after the loop
Height(h, t) ==
  IF h > SettleThreshold THEN Max(BallRadius, h - FallDistance(t)) ELSE BallRadius

\* the circumference of a ball of radius 1: 2 * math.pi
Circumference_UnitRadius == 2 * Pi

\* circumference = math.pi  ("Circumference = 2 pi r, r=0.5")
Circumference == Pi

\* rotations = (ball.location.x / circumference) * 2 * math.pi;
\* ball.rotation_euler.y = -rotations
Rotation(x) == Neg(MulDivWide(x, 2 * Pi, Circumference))

\* a squash as deep as the ball is below the impact threshold
Squash_FullDepth(height) == Unit - (ImpactThreshold - height)

\* squash = 1.0 - (impact_threshold - height) * 0.5
Squash(height) == Unit - Scaled(ImpactThreshold - height, 5, 10)

\* the squash branch without its widening: only ball.scale.z = squash
Scale_NoStretch(height) ==
  IF height < ImpactThreshold THEN <<Unit, Unit, Squash(height)>> ELSE <<Unit, Unit, Unit>>

\* ball.scale after the squash-and-stretch branch
Scale(height) ==
  IF height < ImpactThreshold
  THEN << Unit + Scaled(Unit - Squash(height), 5, 10),
          Unit + Scaled(Unit - Squash(height), 5, 10),
          Squash(height) >>
  ELSE <<Unit, Unit, Unit>>

\* the ball scene and the script before its first statement
BounceScene ==
  /\ ball_present \in BOOLEAN
  /\ bpc = "start"
  /\ ball = RestBall
  /\ time = 0
  /\ bounce_time = 0
  /\ remaining_height = 0
  /\ current_time = 0
  /\ bounce_index = 0
  /\ iterations = 0
  /\ decomp = [f \in BounceFrames |-> NoDecomp]
  /\ ball_keys = [f \in BounceFrames |-> NoKey]
  /\ first_ball_keys = [f \in BounceFrames |-> NoKey]
  /\ present = {}
  /\ wpc = "idle"
  /\ frame = 0
  /\ frame_start = 0
  /\ frame_end = 0
  /\ frame_range = Ascending(120)
  /\ run = 1
  /\ legs = [id \in LegIds |-> <<>>]
  /\ location = RestLocation
  /\ rotation_euler = RestRotation
  /\ keys = [f \in WalkFrames |-> NoKeys]
  /\ first_keys = [f \in WalkFrames |-> NoKeys]
  /\ error = FALSE

\* the scene create_bouncing_ball saved, with its camera
BounceInit == BounceScene /\ CameraAt(BallCameraRest, {TRUE}) /\ ToolsIdle

\* create_bounce_animation up to its frame loop: the frame range and the
\* lookup of the ball ("Error: Ball not found!" returns)
CreateBounceAnimation ==
  /\ bpc = "start"
  /\ frame_start' = 1
  /\ frame_end' = 120
  /\ frame' = frame_range[1]
  /\ bpc' = IF ball_present THEN "frame" ELSE "done"
  /\ UNCHANGED <<ball_present, ball, time, bounce_time, remaining_height, current_time,
                 bounce_index, iterations, decomp, ball_keys, first_ball_keys,
                 frame_range, run>>
  /\ UNCHANGED walkOnlyVars
  /\ UNCHANGED cameraVars
  /\ UNCHANGED toolVars

\* some frame of lo .. hi has keyframes of the ball
BallKeyedIn(lo, hi) == \E g \in lo .. hi : ball_keys[g] # NoKey

\* the last frame of lo .. hi with keyframes of the ball, by halving
RECURSIVE LastBallKeyed(_, _)
LastBallKeyed(lo, hi) ==
  IF lo = hi THEN lo
  ELSE IF BallKeyedIn((lo + hi + 1) \div 2, hi) THEN LastBallKeyed((lo + hi + 1) \div 2, hi)
  ELSE LastBallKeyed(lo, (lo + hi + 1) \div 2 - 1)

\* the first frame of lo .. hi with keyframes of the ball, by halving
RECURSIVE FirstBallKeyed(_, _)
FirstBallKeyed(lo, hi) ==
  IF lo = hi THEN lo
  ELSE IF BallKeyedIn(lo, (lo + hi) \div 2) THEN FirstBallKeyed(lo, (lo + hi) \div 2)
  ELSE FirstBallKeyed((lo + hi) \div 2 + 1, hi)

\* scene.frame_set(f) on the ball: its three keyframed properties
BallEvaluated(f) ==
  IF ball_keys[f] # NoKey THEN ball_keys[f]
  ELSE LET before == IF BallKeyedIn(1, f - 1) THEN LastBallKeyed(1, f - 1) ELSE 0
           after == IF BallKeyedIn(f + 1, 120) THEN FirstBallKeyed(f + 1, 120) ELSE 0
       IN  IF before = 0 /\ after = 0 THEN ball
           ELSE [d \in {"location", "rotation_euler", "scale"} |->
                   Curve(before, after, IF before = 0 THEN <<>> ELSE ball_keys[before][d],
                         IF after = 0 THEN <<>> ELSE ball_keys[after][d])]

\* a frame body without lines 44-46: the decomposition goes on from the values
\* the frame before left in bounce_time and remaining_height
BounceFrameBegin_CarryOver ==
  /\ bpc = "frame"
  /\ frame \in BounceFrames
  /\ time' = Time(frame)
  /\ ball' = [BallEvaluated(frame) EXCEPT !.location[1] = BallX(time')]
  /\ current_time' = time'
  /\ iterations' = 0
  /\ bpc' = "loop"
  /\ UNCHANGED <<bounce_time, remaining_height, bounce_index>>
  /\ UNCHANGED <<ball_present, decomp, ball_keys, first_ball_keys, frame, frame_start,
                 frame_end, frame_range, run>>
  /\ UNCHANGED walkOnlyVars
  /\ UNCHANGED cameraVars
  /\ UNCHANGED toolVars

\* top of "for frame in range(1, 121)": scene.frame_set(frame), the time of
\* the frame, the forward movement and the initial values of the decomposition
BounceFrameBegin ==
  /\ bpc = "frame"
  /\ frame \in BounceFrames
  /\ time' = Time(frame)
  /\ ball' = [BallEvaluated(frame) EXCEPT !.location[1] = BallX(time')]
  /\ bounce_time' = 0
  /\ remaining_height' = InitialHeight
  /\ current_time' = time'
  /\ bounce_index' = 0
  /\ iterations' = 0
  /\ bpc' = "loop"
  /\ UNCHANGED <<ball_present, decomp, ball_keys, first_ball_keys, frame, frame_start,
                 frame_end, frame_range, run>>
  /\ UNCHANGED walkOnlyVars
  /\ UNCHANGED cameraVars
  /\ UNCHANGED toolVars

\* a time equal to the fall time goes to the next fall: "current_time < fall_time"
WithinFall_Strict(t, fall_time) == t < fall_time

\* "if current_time <= fall_time"
WithinFall(t, fall_time) == t <= fall_time

\* one test of "while current_time > 0" and, when it holds, one body
BounceLoop ==
  /\ bpc = "loop"
  /\ IF current_time > 0
     THEN \E fall_time \in {FallTime(remaining_height)} :
            /\ iterations' = iterations + 1
            /\ IF WithinFall(current_time, fall_time)
               THEN /\ bounce_time' = current_time
                    /\ bpc' = "post"
                    /\ UNCHANGED <<current_time, remaining_height, bounce_index>>
               ELSE /\ current_time' = current_time - fall_time
                    /\ bounce_index' = bounce_index + 1
                    /\ IF Settles(Rebound(remaining_height))
                       THEN /\ bounce_time' = 0
                            /\ remaining_height' = 0
                            /\ bpc' = "post"
                       ELSE /\ remaining_height' = Rebound(remaining_height)
                            /\ bpc' = "loop"
                            /\ UNCHANGED bounce_time
     ELSE /\ bpc' = "post"
          /\ UNCHANGED <<bounce_time, remaining_height, current_time, bounce_index, iterations>>
  /\ UNCHANGED <<ball_present, ball, time, decomp, ball_keys, first_ball_keys, frame,
                 frame_start, frame_end, frame_range, run>>
  /\ UNCHANGED walkOnlyVars
  /\ UNCHANGED cameraVars
  /\ UNCHANGED toolVars

\* rest of the frame: height, rolling, squash and stretch, the keyframes
BounceFrameEnd ==
  /\ bpc = "post"
  /\ \E height \in {Height(remaining_height, bounce_time)} :
     \E newBall \in {[location |-> <<ball.location[1], ball.location[2], height>>,
                      rotation_euler |-> <<ball.rotation_euler[1], Rotation(ball.location[1]),
                                           ball.rotation_euler[3]>>,
                      scale |-> Scale(height)]} :
       /\ ball' = newBall
       /\ ball_keys' = [ball_keys EXCEPT ![frame] = newBall]
  /\ decomp' = [decomp EXCEPT ![frame] =
                  [remaining_height |-> remaining_height, bounce_time |-> bounce_time,
                   bounce_index |-> bounce_index, iterations |-> iterations,
                   settled |-> (remaining_height = 0)]]
  /\ IF IndexIn(frame_range, frame) = Len(frame_range)
     THEN bpc' = "done" /\ frame' = frame
     ELSE bpc' = "frame" /\ frame' = frame_range[IndexIn(frame_range, frame) + 1]
  /\ UNCHANGED <<ball_present, time, bounce_time, remaining_height, current_time,
                 bounce_index, iterations, first_ball_keys, frame_start, frame_end,
                 frame_range, run>>
  /\ UNCHANGED walkOnlyVars
  /\ UNCHANGED cameraVars
  /\ UNCHANGED toolVars

NextBounce == CreateBounceAnimation \/ BounceFrameBegin \/ BounceLoop \/ BounceFrameEnd

\* the bounce is run once more on the scene as create_bouncing_ball left it,
\* its frame loop visiting the frames in another order
BounceReorder ==
  /\ bpc = "done"
  /\ run < MaxRuns
  /\ run' = run + 1
  /\ first_ball_keys' = IF run = 1 THEN ball_keys ELSE first_ball_keys
  /\ frame_range' \in FrameOrders(120)
  /\ ball' = RestBall
  /\ ball_keys' = [f \in BounceFrames |-> NoKey]
  /\ bpc' = "start"
  /\ UNCHANGED <<ball_present, time, bounce_time, remaining_height, current_time,
                 bounce_index, iterations, decomp, frame, frame_start, frame_end>>
  /\ UNCHANGED walkOnlyVars
  /\ UNCHANGED cameraVars
  /\ UNCHANGED toolVars

\* times between the frames, in ticks
SampleStep == 1300

\* number of sampled times
MaxSamples == 45

\* peak height of the fall after n rebounds: 2.0 * 0.49^n
RECURSIVE EpochPeak(_)
EpochPeak(n) == IF n = 0 THEN 2000000 ELSE (EpochPeak(n - 1) * 49) \div 100

\* time at which the fall after n rebounds ends, in ticks: the sum of the fall
\* times sqrt(2 * h / g) of the falls 0 .. n
RECURSIVE EpochEnd(_)
EpochEnd(n) == IF n < 0 THEN 0 ELSE EpochEnd(n - 1) + FallTime(EpochPeak(n))

\* times the decomposition is examined at: 0, a grid, and each end of a fall
\* with the tick before and after it
SampleTimes ==
  {k * SampleStep : k \in 0 .. MaxSamples}
    \cup {EpochEnd(n) + e : n \in 0 .. 7, e \in {0 - 1, 0, 1}}

\* lines 44-46 of the frame body at a time of its own: the decomposition as a
\* function of time
DecomposeInit ==
  /\ time \in SampleTimes
  /\ ball_present = TRUE
  /\ bpc = "loop"
  /\ ball = RestBall
  /\ bounce_time = 0
  /\ remaining_height = InitialHeight
  /\ current_time = time
  /\ bounce_index = 0
  /\ iterations = 0
  /\ decomp = [f \in BounceFrames |-> NoDecomp]
  /\ ball_keys = [f \in BounceFrames |-> NoKey]
  /\ first_ball_keys = [f \in BounceFrames |-> NoKey]
  /\ present = {}
  /\ wpc = "idle"
  /\ frame = 0
  /\ frame_start = 0
  /\ frame_end = 0
  /\ frame_range = Ascending(120)
  /\ run = 1
  /\ legs = [id \in LegIds |-> <<>>]
  /\ location = RestLocation
  /\ rotation_euler = RestRotation
  /\ keys = [f \in WalkFrames |-> NoKeys]
  /\ first_keys = [f \in WalkFrames |-> NoKeys]
  /\ error = FALSE
  /\ CameraAt(BallCameraRest, {TRUE})
  /\ ToolsIdle

\* lines 66-74 after the loop: the height at the time examined
HeightAtTime ==
  /\ bpc = "post"
  /\ ball' = [ball EXCEPT !.location[3] = Height(remaining_height, bounce_time)]
  /\ bpc' = "done"
  /\ UNCHANGED <<ball_present, time, bounce_time, remaining_height, current_time,
                 bounce_index, iterations, decomp, ball_keys, first_ball_keys, frame,
                 frame_start, frame_end, frame_range, run>>
  /\ UNCHANGED walkOnlyVars
  /\ UNCHANGED cameraVars
  /\ UNCHANGED toolVars

NextDecompose == BounceLoop \/ HeightAtTime

\* main has saved the file and the script is run on it again
BounceRerun ==
  /\ bpc = "done"
  /\ run < MaxRuns
  /\ run' = run + 1
  /\ first_ball_keys' = IF run = 1 THEN ball_keys ELSE first_ball_keys
  /\ bpc' = "start"
  /\ UNCHANGED <<ball_present, ball, time, bounce_time, remaining_height, current_time,
                 bounce_index, iterations, decomp, ball_keys, frame, frame_start,
                 frame_end, frame_range>>
  /\ UNCHANGED walkOnlyVars
  /\ UNCHANGED cameraVars
  /\ UNCHANGED toolVars

(* ------------------------- the tracking camera -------------------------- *)

\* a camera that stays where create_baby_camel put it
WalkCameraX_FromRest(f) == WalkCameraRest[1]

\* camera.location.x = (frame / 60.0) * 3.0 + 5
WalkCameraX(f) == (f * 3 * Unit) \div 60 + 5 * Unit

\* time = frame / 24.0; camera.location.x = time * 3.0 + 8
BallCameraX(f) == ((f * TicksPerSecond) \div 24) * ((3 * Unit) \div TicksPerSecond) + 8 * Unit

\* scene.frame_set(f) on the camera; its loop writes the keys of 1 .. f - 1
\* before it reaches f, so a frame without a key of its own is past the last
\* key (constant extrapolation) or, without any key, keeps the location
CameraEvaluated(f) ==
  IF camera_keys[f] # NoKey THEN camera_keys[f]
  ELSE IF f > 1 /\ camera_keys[f - 1] # NoKey THEN camera_keys[f - 1]
  ELSE camera_location

\* setup_camera_tracking of the walk up to its loop, called by main after
\* create_walk_cycle has returned: the lookups and the TRACK_TO constraint
WalkSetupCameraTracking ==
  /\ wpc = "done"
  /\ cpc = "idle"
  /\ IF camera_present /\ "Body" \in present
     THEN /\ constraints' = Append(constraints, "Body")
          /\ camera_frame' = 1
          /\ cpc' = "frames"
     ELSE /\ cpc' = "done"
          /\ UNCHANGED <<constraints, camera_frame>>
  /\ UNCHANGED <<camera_present, camera_location, camera_keys>>
  /\ UNCHANGED walkVars
  /\ UNCHANGED bounceVars
  /\ UNCHANGED toolVars

\* one iteration of "for frame in range(1, 61)" of setup_camera_tracking
WalkCameraFrame ==
  /\ wpc = "done"
  /\ cpc = "frames"
  /\ frame' = camera_frame
  /\ location' = [p \in Parts |-> Evaluated(p, "location", camera_frame, location[p])]
  /\ rotation_euler' =
       [p \in Parts |-> Evaluated(p, "rotation_euler", camera_frame, rotation_euler[p])]
  /\ \E newCam \in {[CameraEvaluated(camera_frame) EXCEPT ![1] = WalkCameraX(camera_frame)]} :
       /\ camera_location' = newCam
       /\ camera_keys' = [camera_keys EXCEPT ![camera_frame] = newCam]
  /\ IF camera_frame = 60
     THEN cpc' = "done" /\ UNCHANGED camera_frame
     ELSE cpc' = "frames" /\ camera_frame' = camera_frame + 1
  /\ UNCHANGED <<camera_present, constraints>>
  /\ UNCHANGED <<present, wpc, frame_start, frame_end, frame_range, run, legs, keys,
                 first_keys, error>>
  /\ UNCHANGED bounceVars
  /\ UNCHANGED toolVars

\* setup_camera_tracking of the bounce up to its loop, called by main after
\* create_bounce_animation has returned
BallSetupCameraTracking ==
  /\ bpc = "done"
  /\ cpc = "idle"
  /\ IF camera_present /\ ball_present
     THEN /\ constraints' = Append(constraints, "Ball")
          /\ camera_frame' = 1
          /\ cpc' = "frames"
     ELSE /\ cpc' = "done"
          /\ UNCHANGED <<constraints, camera_frame>>
  /\ UNCHANGED <<camera_present, camera_location, camera_keys>>
  /\ UNCHANGED walkVars
  /\ UNCHANGED bounceVars
  /\ UNCHANGED toolVars

\* one iteration of "for frame in range(1, 121)" of setup_camera_tracking
BallCameraFrame ==
  /\ bpc = "done"
  /\ cpc = "frames"
  /\ frame' = camera_frame
  /\ ball' = BallEvaluated(camera_frame)
  /\ \E newCam \in {[CameraEvaluated(camera_frame) EXCEPT ![1] = BallCameraX(camera_frame)]} :
       /\ camera_location' = newCam
       /\ camera_keys' = [camera_keys EXCEPT ![camera_frame] = newCam]
  /\ IF camera_frame = 120
     THEN cpc' = "done" /\ UNCHANGED camera_frame
     ELSE cpc' = "frames" /\ camera_frame' = camera_frame + 1
  /\ UNCHANGED <<camera_present, constraints>>
  /\ UNCHANGED <<ball_present, bpc, time, bounce_time, remaining_height, current_time,
                 bounce_index, iterations, decomp, ball_keys, first_ball_keys>>
  /\ UNCHANGED <<frame_start, frame_end, frame_range, run>>
  /\ UNCHANGED walkOnlyVars
  /\ UNCHANGED toolVars

(* ------------------------- the upload to Roblox ------------------------- *)

\* asset ids an operation may come back with
AssetIds == {"1001", "1002"}

\* def wait_for_asset(operation_path, api_key, timeout=120), in seconds
WaitTimeout == 120

\* time.sleep(2)
PollInterval == 2

\* bound: the seconds one call of get_operation_status may take
MaxPollSeconds == 1

\* the status has no "response" key
Absent == "absent"

\* the status has a "response" without "assetId"
NoAssetId == "no assetId"

\* get_operation_status returned None: rbxcloud failed or printed no JSON
FailedPoll == [ok |-> FALSE, done |-> FALSE, response |-> Absent, error |-> FALSE]

\* what get_operation_status may return: None, or the JSON object of the
\* operation with or without "done", "response" and "error"
PollResults ==
  {FailedPoll}
    \cup {[ok |-> TRUE, done |-> d, response |-> r, error |-> e] :
            d \in BOOLEAN, r \in {Absent, NoAssetId} \cup AssetIds, e \in BOOLEAN}

\* lines 76-83: the status makes the loop body return
PollReturns(st) == st.ok /\ st.done /\ (st.response # Absent \/ st.error)

\* lines 77-83: what it returns then: status["response"].get("assetId"), or
\* None for an error
PollValue(st) ==
  IF st.response = Absent \/ st.response = NoAssetId THEN None ELSE st.response

\* a loop that polls again at once
Slept_NoSleep(e, d) == e + d

\* time.time() - start at the next test of the loop, after a poll of d seconds
\* and time.sleep(2)
Slept(e, d) == e + d + PollInterval

\* one test of "while time.time() - start < timeout" and, when it holds, one
\* body; otherwise lines 86-87
WaitIteration ==
  /\ upc = "wait"
  /\ IF elapsed < WaitTimeout
     THEN \E d \in 0 .. MaxPollSeconds : \E st \in PollResults :
            /\ status' = st
            /\ IF PollReturns(st)
               THEN /\ asset_id' = PollValue(st)
                    /\ elapsed' = elapsed + d
                    /\ upc' = "returned"
               ELSE /\ elapsed' = Slept(elapsed, d)
                    /\ upc' = "wait"
                    /\ UNCHANGED asset_id
     ELSE /\ asset_id' = None
          /\ upc' = "returned"
          /\ UNCHANGED <<elapsed, status>>
  /\ UNCHANGED <<item, tex_file, op, assets, uploads>>
  /\ UNCHANGED <<walkVars, bounceVars, cameraVars, renderVars>>

\* what upload_asset may return: None (rbxcloud failed), {"raw": stdout} (no
\* JSON), the JSON object without "path", the JSON object with "path"
UploadResults == {None, "raw", "no path", "path"}

\* "if op and "path" in op"
HasPath(o) == o = "path"

\* the files looked for: the FBX for item 1; for a texture three name patterns,
\* each under exports/textures and then under exports
Candidates(i) == IF i = 1 THEN 1 .. 1 ELSE 1 .. 6

\* the first candidate that exists, 0 if none does
FirstExisting(exists) ==
  IF exists = {} THEN 0 ELSE CHOOSE k \in exists : \A j \in exists : k <= j

\* what wait_for_asset may return: the value of a poll that makes it return,
\* or None after the timeout
WaitResults == {None} \cup {PollValue(st) : st \in {s \in PollResults : PollReturns(s)}}

\* an entry for every upload that was made, with or without an asset id
Recorded_Always(as, name, o, id) == [as EXCEPT ![name] = id]

\* lines 109-112 and 151-154: results["assets"] after the upload of name
\* returned o and, if o has a path, wait_for_asset returned id
Recorded(as, name, o, id) ==
  IF HasPath(o) /\ id # None THEN [as EXCEPT ![name] = id] ELSE as

\* lines 100-114: the FBX is looked for and, if found, uploaded and waited for
UploadModel ==
  /\ upc = "model"
  /\ item = 1
  /\ \E found \in {FirstExisting(exists) : exists \in SUBSET Candidates(item)} :
       /\ tex_file' = found
       /\ IF tex_file' = 0
          THEN UNCHANGED <<op, asset_id, assets, uploads>>
          ELSE \E o \in UploadResults :
               \E id \in IF HasPath(o) THEN WaitResults ELSE {asset_id} :
                 /\ op' = o
                 /\ asset_id' = id
                 /\ uploads' = Append(uploads, UploadItems[item])
                 /\ assets' = Recorded(assets, UploadItems[item], o, id)
  /\ upc' = "textures"
  /\ item' = item + 1
  /\ UNCHANGED <<elapsed, status>>
  /\ UNCHANGED <<walkVars, bounceVars, cameraVars, renderVars>>

\* one iteration of "for tex_name, asset_type in texture_types.items()"
UploadTexture ==
  /\ upc = "textures"
  /\ \E found \in {FirstExisting(exists) : exists \in SUBSET Candidates(item)} :
       /\ tex_file' = found
       /\ IF tex_file' = 0
          THEN UNCHANGED <<op, asset_id, assets, uploads>>
          ELSE \E o \in UploadResults :
               \E id \in IF HasPath(o) THEN WaitResults ELSE {asset_id} :
                 /\ op' = o
                 /\ asset_id' = id
                 /\ uploads' = Append(uploads, UploadItems[item])
                 /\ assets' = Recorded(assets, UploadItems[item], o, id)
  /\ IF item = Len(UploadItems)
     THEN upc' = "done" /\ UNCHANGED item
     ELSE upc' = "textures" /\ item' = item + 1
  /\ UNCHANGED <<elapsed, status>>
  /\ UNCHANGED <<walkVars, bounceVars, cameraVars, renderVars>>

\* no Blender scene is open: nothing of the animation scripts' state exists
NoScene ==
  /\ present = {}
  /\ wpc = "idle"
  /\ frame_range = <<>>
  /\ run = 1
  /\ legs = <<>>
  /\ location = <<>>
  /\ rotation_euler = <<>>
  /\ keys = <<>>
  /\ first_keys = <<>>
  /\ error = FALSE
  /\ ball_present = FALSE
  /\ bpc = "idle"
  /\ ball = <<>>
  /\ time = 0
  /\ bounce_time = 0
  /\ remaining_height = 0
  /\ current_time = 0
  /\ bounce_index = 0
  /\ iterations = 0
  /\ decomp = <<>>
  /\ ball_keys = <<>>
  /\ first_ball_keys = <<>>
  /\ camera_present = FALSE
  /\ cpc = "idle"
  /\ camera_frame = 0
  /\ camera_location = <<>>
  /\ constraints = <<>>
  /\ camera_keys = <<>>

\* no scene, no frame range
NoFrames == frame = 0 /\ frame_start = 0 /\ frame_end = 0

\* upload_workflow after line 97, before the FBX is looked for
UploadInit ==
  /\ NoScene
  /\ NoFrames
  /\ RenderIdle
  /\ upc = "model"
  /\ item = 1
  /\ tex_file = 0
  /\ op = None
  /\ elapsed = 0
  /\ status = FailedPoll
  /\ asset_id = None
  /\ assets = NoAssets
  /\ uploads = <<>>

\* wait_for_asset at its first test of the loop, called for the FBX
WaitInit ==
  /\ NoScene
  /\ NoFrames
  /\ RenderIdle
  /\ upc = "wait"
  /\ item = 1
  /\ tex_file = 1
  /\ op = "path"
  /\ elapsed = 0
  /\ status = FailedPoll
  /\ asset_id = None
  /\ assets = NoAssets
  /\ uploads = <<"model">>

NextWait == WaitIteration

NextUpload == UploadModel \/ UploadTexture

(* --------------------------- the batch render --------------------------- *)

\* bound: the largest --start and --end given
MaxFrame == 8

\* bound: the largest --step given
MaxStep == 4

\* scene.frame_end of the scene rendered, as the walk leaves it
SceneFrameEnd == 60

\* a // b of Python for b > 0: the floor of the quotient
FloorDiv(a, b) == IF a >= 0 THEN a \div b ELSE 0 - ((b - 1 - a) \div b)

\* total_frames = (scene.frame_end - scene.frame_start + 1) // frame_step
TotalFrames(e, s, step) == FloorDiv(e - s + 1, step)

\* the range an argument leaves: "if start_frame is not None: scene.frame_start = start_frame"
Given(arg, scene_value) == IF arg # NotGiven THEN arg ELSE scene_value

\* render_animation is called on a scene with the frame range 1 .. 60, with
\* or without start_frame and end_frame, for a range that is not empty
RenderInit ==
  /\ NoScene
  /\ UploadIdle
  /\ frame = 1
  /\ frame_start = 1
  /\ frame_end = SceneFrameEnd
  /\ rpc = "start"
  /\ start_frame \in {NotGiven} \cup (0 .. MaxFrame)
  /\ end_frame \in {NotGiven} \cup (0 .. MaxFrame)
  /\ Given(start_frame, frame_start) <= Given(end_frame, frame_end)
  /\ frame_step \in 1 .. MaxStep
  /\ total_frames = 0
  /\ rendered = {}

\* lines 53-72: the frame range, the step and the total that is printed
RenderAnimation ==
  /\ rpc = "start"
  /\ frame_start' = Given(start_frame, frame_start)
  /\ frame_end' = Given(end_frame, frame_end)
  /\ total_frames' = TotalFrames(frame_end', frame_start', frame_step)
  /\ frame' = frame_start'
  /\ rpc' = "render"
  /\ UNCHANGED <<start_frame, end_frame, frame_step, rendered>>
  /\ UNCHANGED <<present, wpc, frame_range, run, legs, location, rotation_euler, keys,
                 first_keys, error>>
  /\ UNCHANGED <<bounceVars, cameraVars, uploadVars>>

\* line 75, bpy.ops.render.render(animation=True): Blender renders frame_start,
\* then every frame_step-th frame, as long as the frame is not past frame_end
RenderFrame ==
  /\ rpc = "render"
  /\ IF frame <= frame_end
     THEN /\ rendered' = rendered \cup {frame}
          /\ frame' = frame + frame_step
          /\ rpc' = "render"
     ELSE /\ rpc' = "done"
          /\ UNCHANGED <<rendered, frame>>
  /\ UNCHANGED <<start_frame, end_frame, frame_step, total_frames>>
  /\ UNCHANGED <<present, wpc, frame_start, frame_end, frame_range, run, legs, location,
                 rotation_euler, keys, first_keys, error>>
  /\ UNCHANGED <<bounceVars, cameraVars, uploadVars>>

NextRender == RenderAnimation \/ RenderFrame

(* --------------------------- specifications ----------------------------- *)

vars ==
  <<present, wpc, frame, frame_start, frame_end, frame_range, run, legs, location,
    rotation_euler, keys, first_keys, error,
    ball_present, bpc, ball, time, bounce_time, remaining_height, current_time,
    bounce_index, iterations, decomp, ball_keys, first_ball_keys,
    camera_present, cpc, camera_frame, camera_location, constraints, camera_keys,
    upc, item, tex_file, op, elapsed, status, asset_id, assets, uploads,
    rpc, start_frame, end_frame, frame_step, total_frames, rendered>>

\* animate_baby_camel_walk.py
SpecWalk == WalkInit /\ [][NextWalk]_vars

\* animate_bouncing_ball_walk.py
SpecBounce == BounceInit /\ [][NextBounce]_vars

\* animate_bouncing_ball_walk.py, run to its end
SpecBounceFair == SpecBounce /\ WF_vars(NextBounce)

\* either animation script, on its scene
AnimateInit == WalkInit \/ BounceInit

NextAnimate == NextWalk \/ NextBounce

SpecAnimate == AnimateInit /\ [][NextAnimate]_vars

NextRerun == NextAnimate \/ WalkRerun \/ BounceRerun

\* either animation script, run again on the file it saved
SpecRerun == AnimateInit /\ [][NextRerun]_vars

\* the bounce decomposition of lines 44-74 as a function of the time
SpecDecompose == DecomposeInit /\ [][NextDecompose]_vars

\* the scenes the camera is set up in: the ball scene with or without its
\* ball, the camel scene complete or with one object or one whole leg missing,
\* each with or without its camera
TrackInit ==
  \/ /\ WalkScene
     /\ \E a \in AbsentUnits \cup {{}} : present = Objects \ a
     /\ CameraAt(WalkCameraRest, BOOLEAN)
     /\ ToolsIdle
  \/ /\ BounceScene
     /\ CameraAt(BallCameraRest, BOOLEAN)
     /\ ToolsIdle

NextTrack ==
  \/ NextAnimate
  \/ WalkSetupCameraTracking
  \/ WalkCameraFrame
  \/ BallSetupCameraTracking
  \/ BallCameraFrame

\* main of either animation script: the animation, then the tracking camera
SpecTrack == TrackInit /\ [][NextTrack]_vars

\* wait_for_asset
SpecWait == WaitInit /\ [][NextWait]_vars

\* wait_for_asset when every call of get_operation_status returns
SpecWaitFair == SpecWait /\ WF_vars(NextWait)

\* upload_workflow
SpecUpload == UploadInit /\ [][NextUpload]_vars

\* batch_render.render_animation
SpecRender == RenderInit /\ [][NextRender]_vars

NextAnyOrder == NextAnimate \/ WalkReorder \/ BounceReorder

\* the scenes whose frames are visited in another order: the ball scene with
\* or without its ball, and the camel scene as create_baby_camel built it or
\* with one object or one whole leg missing
AnyOrderInit ==
  /\ AnimateInit
  /\ \/ wpc = "idle"
     \/ \E a \in AbsentUnits \cup {{}} : present = Objects \ a

\* either animation script, then once more with its frames in another order
SpecAnyOrder == AnyOrderInit /\ [][NextAnyOrder]_vars

(* ------------------------------ properties ------------------------------ *)

\* frames of the walk whose loop body has run
FramesDone ==
  IF wpc = "done" THEN WalkFrames
  ELSE IF wpc \in {"frames", "aborted"}
  THEN {frame_range[k] : k \in 1 .. (IndexIn(frame_range, frame) - 1)}
  ELSE {}

\* index of the leg a leg part belongs to
LegIndexOf(p) == CHOOSE i \in LegIndex : p \in LegPartNames(i)

\* phase of the diagonal pair leg index i belongs to, at frame f
PairPhase(i, f) ==
  IF i \in {0, 3} THEN LegPairs(Phase(f))[1].leg_phase ELSE LegPairs(Phase(f))[2].leg_phase

\* lift_height = 0.15 of the claims, in millionths
LiftHeight == 150000

\* frames in one period of the leg phase function: 2 pi over the phase step
WalkPeriod == (2 * PiSteps) \div (Phase(1) - Phase(0))

\* C1: at every keyframed frame each leg part sits at its rest height plus a
\* lift between 0 and the lift height 0.15, so never below its rest height
\* (upper 0.85, lower 0.3, hoof 0.05); both pairs' lifts are in that range.
C1_LiftWithinBounds ==
  \A f \in FramesDone :
    /\ \A j \in 1 .. 2 :
         /\ LegLift(LegPairs(Phase(f))[j].leg_phase) >= 0
         /\ LegLift(LegPairs(Phase(f))[j].leg_phase) <= LiftHeight
    /\ \A i \in LegIndex :
         /\ Key(LegUpperName(i), "location", f) # NoKey =>
              /\ Key(LegUpperName(i), "location", f)[3] >= 850000
              /\ Key(LegUpperName(i), "location", f)[3] <= 850000 + LiftHeight
         /\ Key(LegLowerName(i), "location", f) # NoKey =>
              /\ Key(LegLowerName(i), "location", f)[3] >= 300000
              /\ Key(LegLowerName(i), "location", f)[3] <= 300000 + LiftHeight
         /\ Key(HoofName(i), "location", f) # NoKey =>
              /\ Key(HoofName(i), "location", f)[3] >= 50000
              /\ Key(HoofName(i), "location", f)[3] <= 50000 + LiftHeight

\* C1 witness: a finished walk with a hoof keyed at peak lift at frame 15 and
\* on the ground at frame 45, where the sine is negative
C1_Witness ==
  /\ wpc = "done"
  /\ Key("Hoof_0", "location", 15) # NoKey
  /\ Key("Hoof_0", "location", 15)[3] = 50000 + LiftHeight
  /\ Key("Hoof_0", "location", 45) # NoKey
  /\ Key("Hoof_0", "location", 45)[3] = 50000
  /\ Sin(PairPhase(0, 45)) < 0

\* C2: the lift of pair FR+BL at frame f is the lift of pair FL+BR half a
\* period of the phase function later, and the two pairs are never lifted at
\* the same frame; checked on the lift function and on the keyframes.
C2_DiagonalAlternation ==
  /\ \A f \in FramesDone :
       /\ LegLift(LegPairs(Phase(f))[2].leg_phase)
            = LegLift(LegPairs(Phase(f + WalkPeriod \div 2))[1].leg_phase)
       /\ ~ (/\ LegLift(LegPairs(Phase(f))[1].leg_phase) > 0
             /\ LegLift(LegPairs(Phase(f))[2].leg_phase) > 0)
  /\ \A f \in FramesDone : \A a \in {0, 3} : \A b \in {1, 2} :
       (/\ Key(LegUpperName(a), "location", f) # NoKey
        /\ Key(LegUpperName(b), "location", f) # NoKey)
       => /\ ~ (/\ Key(LegUpperName(a), "location", f)[3] > 850000
                /\ Key(LegUpperName(b), "location", f)[3] > 850000)
          /\ (f + WalkPeriod \div 2) \in FramesDone
             => Key(LegUpperName(b), "location", f)[3]
                  = Key(LegUpperName(a), "location", f + WalkPeriod \div 2)[3]

\* C2 witness: a finished walk of a complete rig in which pair FL+BR is lifted
\* at frame 15 and pair FR+BL at frame 45
C2_Witness ==
  /\ wpc = "done"
  /\ Parts \subseteq present
  /\ Key("LegUpper_0", "location", 15)[3] > 850000
  /\ Key("LegUpper_1", "location", 15)[3] = 850000
  /\ Key("LegUpper_1", "location", 45)[3] > 850000
  /\ Key("LegUpper_0", "location", 45)[3] = 850000

\* C3 as claimed: the leg lift, swing and rotation keyed at frame f + 30 are
\* those keyed at frame f
C3_CycleEvery30Frames ==
  \A f \in FramesDone : \A i \in LegIndex :
    (/\ (f + 30) \in FramesDone
     /\ Key(LegUpperName(i), "location", f) # NoKey
     /\ Key(LegUpperName(i), "location", f + 30) # NoKey)
    => /\ Key(LegUpperName(i), "location", f + 30)[3] = Key(LegUpperName(i), "location", f)[3]
       /\ Key(LegUpperName(i), "location", f + 30)[1] - ForwardOffset(f + 30)
            = Key(LegUpperName(i), "location", f)[1] - ForwardOffset(f)
       /\ Key(LegUpperName(i), "rotation_euler", f + 30)
            = Key(LegUpperName(i), "rotation_euler", f)

\* the swing of the pair of leg part p at frame f, 0 for the other parts
SwingOf(p, f) == IF p \in LegParts THEN LegSwing(PairPhase(LegIndexOf(p), f)) ELSE 0

CompleteLegs == BuildLegs(Parts)

\* the keyframe a complete rig gets for part p on data_path d at frame f
CompleteRigKey(p, d, f) ==
  LET lg == CompleteLegs
      e  == [id |-> LegIdOfIndex(LegIndexOf(p)), leg_phase |-> PairPhase(LegIndexOf(p), f)]
  IN  IF p \in LegParts
      THEN IF d = "location" THEN LegLocation(p, e, f, RestLocation[p], lg)
           ELSE IF p \in {LegUpperName(i) : i \in LegIndex} \cup {LegLowerName(i) : i \in LegIndex}
           THEN LegRotation(p, e, RestRotation[p], lg)
           ELSE NoKey
      ELSE IF d = "location" THEN PartLocation(p, f, RestLocation[p])
           ELSE IF p \in RotationKeyed THEN PartRotation(p, f, RestRotation[p])
           ELSE NoKey

\* C5: in a scene that lacks parts of a leg the walk raises no error, and at
\* every frame each leg that is complete and the body, head and neck get the
\* keyframes of a complete rig.
C5_MissingLegTolerated ==
  (\E i \in LegIndex : ~ (LegPartNames(i) \subseteq present))
  => /\ ~ error
     /\ wpc # "aborted"
     /\ \A f \in FramesDone : \A d \in DataPaths :
          /\ \A p \in {"Body", "Head", "Neck"} \cap present :
               Key(p, d, f) = CompleteRigKey(p, d, f)
          /\ \A i \in LegIndex : \A p \in LegPartNames(i) :
               LegPartNames(i) \subseteq present => Key(p, d, f) = CompleteRigKey(p, d, f)

\* C5 witness: a finished walk of a rig without the front left leg; its
\* diagonal partner, the back right leg, is keyed at the last frame
C5_Witness ==
  /\ wpc = "done"
  /\ LegPartNames(0) \cap present = {}
  /\ Key("LegUpper_3", "location", 60) # NoKey
  /\ Key("Body", "location", 60) # NoKey

\* the two diagonal pairs, as leg indices
PairIndices == {{0, 3}, {1, 2}}

\* C6 as claimed: a pair with an absent part gets no keyframe for any part of
\* either of its legs
C6_WholePairSkipped ==
  \A pr \in PairIndices :
    (\E i \in pr : ~ (LegPartNames(i) \subseteq present))
    => \A i \in pr : \A p \in LegPartNames(i) : \A d \in DataPaths : \A f \in WalkFrames :
         Key(p, d, f) = NoKey

\* C6 amended: a leg with an absent part is skipped without error, no part of
\* that leg gets a keyframe at any frame, and the other leg of its pair, when
\* complete, is keyframed at every frame.
C6_IncompleteLegSkipped ==
  \A pr \in PairIndices : \A i \in pr :
    ~ (LegPartNames(i) \subseteq present)
    => /\ ~ error
       /\ \A p \in LegPartNames(i) : \A d \in DataPaths : \A f \in WalkFrames :
            Key(p, d, f) = NoKey
       /\ \A j \in pr \ {i} : \A p \in LegPartNames(j) : \A f \in FramesDone :
            LegPartNames(j) \subseteq present => Key(p, "location", f) # NoKey

\* C6 witness: a finished walk of a rig without the front left upper leg: the
\* front left hoof has no key, the back right hoof of the same pair has one
C6_Witness ==
  /\ wpc = "done"
  /\ "LegUpper_0" \notin present
  /\ "Hoof_0" \in present
  /\ Key("Hoof_0", "location", 60) = NoKey
  /\ Key("Hoof_3", "location", 60) # NoKey

\* C7: the keyframed ball z is at least the radius 0.5 at every frame and is
\* the radius at every frame whose decomposition settled.
C7_HeightAtLeastRadius ==
  \A f \in BounceFrames :
    ball_keys[f] # NoKey
    => /\ ball_keys[f].location[3] >= BallRadius
       /\ decomp[f].settled => ball_keys[f].location[3] = BallRadius

\* C7 witness: a finished bounce with the ball above the floor at frame 1,
\* clamped to the floor at frame 14 and settled at frame 120
C7_Witness ==
  /\ bpc = "done"
  /\ ball_present
  /\ ball_keys[1].location[3] > BallRadius
  /\ ~ decomp[14].settled
  /\ decomp[14].remaining_height - FallDistance(decomp[14].bounce_time) < BallRadius
  /\ ball_keys[14].location[3] = BallRadius
  /\ decomp[120].settled
  /\ ball_keys[120].location[3] = BallRadius

RECURSIVE DampingPower(_)
\* (d^2)^n in units of 10^-9
DampingPower(n) ==
  IF n = 0 THEN 1000000000
  ELSE MulDiv(DampingPower(n - 1), DampingHundredths * DampingHundredths, 10000)

\* h0 * d^(2n), in millionths
PeakHeight(n) == ((InitialHeight \div Unit) * DampingPower(n)) \div 1000

\* C8: while the loop has not settled, remaining_height after n rebounds is
\* h0 * d^(2n) (to the resolution of the arithmetic: n millionths), it is 0.98
\* after the first rebound, and every pass of the loop that rebounds makes
\* remaining_height strictly smaller.
C8_PeakHeightsGeometric ==
  /\ [](bpc \in {"loop", "post"} /\ remaining_height # 0
        => /\ Abs(remaining_height - PeakHeight(bounce_index)) <= bounce_index
           /\ bounce_index = 0 => remaining_height = 2000000
           /\ bounce_index = 1 => remaining_height = 980000)
  /\ [][bpc = "loop" /\ bounce_index' = bounce_index + 1
        => remaining_height' < remaining_height]_vars

\* C8 witness: the loop has passed seven rebounds and not yet settled
C8_Witness ==
  /\ bpc = "loop"
  /\ bounce_index = 7
  /\ remaining_height > SettleThreshold
  /\ remaining_height < 980000

\* the least n with h0 * d^(2n) below the settle threshold
SettleEpoch ==
  CHOOSE n \in 0 .. 20 :
    /\ PeakHeight(n) < SettleThreshold
    /\ \A m \in 0 .. (n - 1) : PeakHeight(m) >= SettleThreshold

\* C9: in every frame the while loop runs at most SettleEpoch = 8 bodies,
\* also when time is left after the last fall, and the script reaches its end.
C9_DecompositionTerminates ==
  /\ [](SettleEpoch = 8 /\ iterations <= SettleEpoch)
  /\ <>(bpc = "done")

\* C9 witness: the loop left after 8 bodies by settling, with time left over
C9_Witness ==
  /\ bpc = "post"
  /\ frame = 120
  /\ iterations = 8
  /\ remaining_height = 0
  /\ current_time > 0

\* C10: once a frame is settled, every later keyframed frame is settled and
\* has the ball at the radius.
C10_SettledForever ==
  \A f \in BounceFrames : \A g \in BounceFrames :
    (f < g /\ decomp[f].settled /\ ball_keys[g] # NoKey)
    => /\ decomp[g].settled
       /\ ball_keys[g].location[3] = BallRadius

\* C10 witness: a finished bounce that is not settled at frame 48 and is
\* settled at frames 49 and 120
C10_Witness ==
  /\ bpc = "done"
  /\ ball_present
  /\ ~ decomp[48].settled
  /\ decomp[49].settled
  /\ decomp[120].settled

(* rolling *)

\* 2 pi r of the ball, r = 0.5
TwoPiR == MulDivWide(2 * Pi, BallRadius, Unit)

\* the angle the ball turns over the distance x: (x / (2 pi r)) * 2 pi
RollAngle(x) == MulDivWide(x, 2 * Pi, TwoPiR)

\* frames of the bounce whose keyframes are written
BallFramesDone == {f \in BounceFrames : ball_keys[f] # NoKey}

\* C14: at every frame the ball's rotation about y is -(x / circumference) * 2 pi
\* with circumference = 2 pi r, r = 0.5 and x = time * forward_speed = f / 24 * 3,
\* and it is strictly smaller than at the frame before.
C14_RollingRotation ==
  \A f \in BallFramesDone :
    /\ ball_keys[f].location[1] = (f * ForwardSpeed * Unit) \div Fps
    /\ ball_keys[f].rotation_euler[2] = 0 - RollAngle(ball_keys[f].location[1])
    /\ f > 1 => ball_keys[f].rotation_euler[2] < ball_keys[f - 1].rotation_euler[2]

\* the ball has rolled through all 120 frames and turned 30 radians backwards
C14_Witness ==
  /\ bpc = "done"
  /\ BallFramesDone = BounceFrames
  /\ ball_keys[120].rotation_euler[2] = 0 - 30 * Unit

(* squash and stretch *)

\* C15: at every frame the keyframed scale is (1, 1, 1) exactly when the
\* frame's height is at least 0.6; below 0.6, scale z is 1 - (0.6 - height) * 0.5
\* and scale x = scale y = 1 + (1 - scale z) * 0.5.  The scale is a function of
\* the frame's own height: frames of equal height have equal scale.
C15_ScaleFromHeight ==
  \A f \in BallFramesDone :
    LET height == ball_keys[f].location[3]
        scale == ball_keys[f].scale
    IN /\ (scale = <<Unit, Unit, Unit>>) <=> (height >= 600000)
       /\ height < 600000 =>
            /\ scale[3] = Unit - ((600000 - height) * 5) \div 10
            /\ scale[1] = Unit + ((Unit - scale[3]) * 5) \div 10
            /\ scale[2] = scale[1]
       /\ \A g \in BallFramesDone :
            ball_keys[g].location[3] = height => ball_keys[g].scale = scale

\* frame 13 is keyed squashed at a height between the ground and 0.6, frame 15
\* squashed on the ground is followed by frame 16 at identity scale, and the
\* ball at rest on the ground is keyed (1.025, 1.025, 0.95)
C15_Witness ==
  /\ bpc = "done"
  /\ BallFramesDone = BounceFrames
  /\ ball_keys[13].location[3] > BallRadius
  /\ ball_keys[13].location[3] < 600000
  /\ ball_keys[13].scale[3] < Unit
  /\ ball_keys[13].scale[3] > 950000
  /\ ball_keys[15].scale = <<1025000, 1025000, 950000>>
  /\ ball_keys[16].scale = <<Unit, Unit, Unit>>
  /\ ball_keys[120].scale = <<1025000, 1025000, 950000>>

(* body bob *)

\* amplitudes a bob may have, in hundredths: 0.01 .. 0.20
BobAmplitudes == 1 .. 20

\* sin(2 * phase) at frame f, the phase running 2 pi over the 60 frames
BobSine(f) == Sin((4 * PiSteps * f) \div 60)

\* frames at which part p has a location keyframe
LocationFrames(p) == {f \in FramesDone : Key(p, "location", f) # NoKey}

\* C16 as stated: body z, head z and neck z each are their rest z plus an
\* amplitude times sin(2 * phase), and neck pitch is 30 degrees plus an
\* amplitude times sin(2 * phase), at every frame.
C16_BobOnBodyHeadNeck ==
  /\ \A p \in {"Body", "Head", "Neck"} :
       \E amp \in BobAmplitudes :
         \A f \in LocationFrames(p) :
           Key(p, "location", f)[3] = RestLocation[p][3] + Scaled(BobSine(f), amp, 100)
  /\ \E amp \in BobAmplitudes :
       \A f \in LocationFrames("Neck") :
         Key("Neck", "rotation_euler", f)[2] = 523599 + Scaled(BobSine(f), amp, 100)

\* C16, amended: at every frame body z is 1.2 + 0.1 * sin(2 * phase), head z is
\* 1.9 + 0.08 * sin(2 * phase) and neck pitch is 30 degrees + 0.1 * sin(2 * phase);
\* neck z is not bobbed, it stays at its rest z 1.5.
C16_BobOnBodyHeadNeckPitch ==
  /\ \A f \in LocationFrames("Body") :
       Key("Body", "location", f)[3] = 1200000 + Scaled(BobSine(f), 10, 100)
  /\ \A f \in LocationFrames("Head") :
       Key("Head", "location", f)[3] = 1900000 + Scaled(BobSine(f), 8, 100)
  /\ \A f \in LocationFrames("Neck") :
       /\ Key("Neck", "rotation_euler", f)[2] = 523599 + Scaled(BobSine(f), 10, 100)
       /\ Key("Neck", "location", f)[3] = 1500000

\* the walk is over with body, head and neck keyed at all 60 frames; at frame 7
\* the bob is near its top and at frame 22, half a bob period later, near its
\* bottom, while the neck is keyed at z = 1.5 at both
C16_Witness ==
  /\ wpc = "done"
  /\ \A p \in {"Body", "Head", "Neck"} : LocationFrames(p) = WalkFrames
  /\ Key("Body", "location", 7)[3] = 1299452
  /\ Key("Body", "location", 22)[3] = 1100548
  /\ Key("Head", "location", 7)[3] = 1979561
  /\ Key("Neck", "rotation_euler", 7)[2] = 623051
  /\ Key("Neck", "location", 7)[3] = 1500000
  /\ Key("Neck", "location", 22)[3] = 1500000

(* leg swing *)

\* swing_amplitude = 0.3 of the claims, in millionths
SwingAmplitude == 300000

\* legs of a complete leg that got keyframes at frame f
KeyedLegs(f) == {i \in LegIndex : Key(LegUpperName(i), "location", f) # NoKey}

\* the swing keyed for leg i at frame f: its upper part's x less its rest x and
\* the forward offset of the frame
KeyedSwing(i, f) ==
  Key(LegUpperName(i), "location", f)[1] - RestLocation[LegUpperName(i)][1] - (f * 3 * Unit) \div 60

\* the lift keyed for leg i at frame f: its upper part's z less its rest z
KeyedLift(i, f) == Key(LegUpperName(i), "location", f)[3] - RestLocation[LegUpperName(i)][3]

\* effective phase of leg i at frame f in steps of pi/30: the frame's phase for
\* group A (FL+BR), half a turn more for group B (FR+BL)
EffectivePhase(i, f) == IF i \in {0, 3} THEN f ELSE f + PiSteps

\* the swing is cos(effective phase) * 0.3 within [-0.3, +0.3], and group A at
\* phase 0 (a whole turn) has lift 0 and swing +0.3
SwingIsCosine(i, f) ==
  /\ KeyedSwing(i, f) = Scaled(Cos(EffectivePhase(i, f)), 3, 10)
  /\ KeyedSwing(i, f) >= 0 - SwingAmplitude
  /\ KeyedSwing(i, f) <= SwingAmplitude
  /\ (i \in {0, 3} /\ EffectivePhase(i, f) % (2 * PiSteps) = 0)
       => (KeyedLift(i, f) = 0 /\ KeyedSwing(i, f) = SwingAmplitude)

C19_LiftedWhileMovingForward ==
  \A f \in FramesDone : \A i \in KeyedLegs(f) :
    /\ ((f + 1) \in FramesDone /\ i \in KeyedLegs(f + 1)) =>
         /\ (KeyedLift(i, f) > 0 /\ KeyedLift(i, f + 1) > 0)
              => KeyedSwing(i, f + 1) > KeyedSwing(i, f)
         /\ (KeyedLift(i, f) = 0 /\ KeyedLift(i, f + 1) = 0)
              => KeyedSwing(i, f + 1) < KeyedSwing(i, f)
    /\ KeyedSwing(i, f) > 0 => KeyedLift(i, f) > 0
    /\ KeyedSwing(i, f) < 0 => KeyedLift(i, f) = 0

(* the frame driver *)

\* parts the walk poses: the present body parts and the parts of complete legs
PosedParts ==
  (NonLegParts \cap present)
    \cup UNION {LegPartNames(i) : i \in {j \in LegIndex : LegPartNames(j) \subseteq present}}

\* frames start .. end of the scene whose loop body is over, if the loop runs
\* upwards from start: all below the current frame, all of them when done
FramesBelow(pc) ==
  IF pc = "done" THEN frame_start .. frame_end ELSE frame_start .. (frame - 1)

\* the walk has keyed exactly the frames below the current one, for each part
\* of objs, inside scene.frame_start .. scene.frame_end = 1 .. 60
WalkCovers(objs) ==
  wpc \in {"frames", "done"} =>
    /\ frame_start = 1 /\ frame_end = 60
    /\ DOMAIN keys = frame_start .. frame_end
    /\ \A f \in DOMAIN keys : \A p \in objs :
         (Key(p, "location", f) # NoKey) <=> (f \in FramesBelow(wpc))

\* the bounce has keyed exactly the frames below the current one, inside
\* scene.frame_start .. scene.frame_end = 1 .. 120, and the time of frame f is f / 24
BounceCovers ==
  (bpc \in {"frame", "loop", "post", "done"} /\ ball_present) =>
    /\ frame_start = 1 /\ frame_end = 120
    /\ DOMAIN ball_keys = frame_start .. frame_end
    /\ \A f \in DOMAIN ball_keys : (ball_keys[f] # NoKey) <=> (f \in FramesBelow(bpc))
    /\ bpc \in {"loop", "post"} => time * 24 = frame * TicksPerSecond

\* C17 as stated: the frames scene.frame_start .. scene.frame_end (1..60 for the
\* walk, 1..120 for the bounce) are keyed in increasing order, each frame wholly
\* before the next, for each present object, none outside the range, and the
\* time of frame f is f / 24.
C17_EveryPresentObjectKeyed == WalkCovers(Parts \cap present) /\ BounceCovers

\* C17, amended: the same for each present body part and each part of a complete
\* leg; the present parts of a leg that lacks its upper, lower or hoof get no
\* keyframe at any frame.
C17_FrameRangeCovered ==
  /\ WalkCovers(PosedParts)
  /\ \A f \in WalkFrames : \A p \in Parts \ PosedParts : Key(p, "location", f) = NoKey
  /\ BounceCovers

\* half way through the walk of a rig whose leg FL lacks its upper part: frame 30
\* is keyed for the body and for leg FR, frame 31 for nothing yet, and the hoof
\* of FL is in the scene without a keyframe
C17_Witness ==
  /\ wpc = "frames"
  /\ frame = 31
  /\ "LegUpper_0" \notin present
  /\ "Hoof_0" \in present
  /\ Key("Hoof_0", "location", 30) = NoKey
  /\ Key("Body", "location", 30) # NoKey
  /\ Key("Hoof_1", "location", 30) # NoKey
  /\ Key("Body", "location", 31) = NoKey

(* running a script again *)

\* C12: a second run of the walk or of the bounce over the scene the first run
\* saved leaves every (part, channel, frame) keyframe as the first run left it,
\* at every point of the run, and the pose a frame leaves on the objects is the
\* pose keyed for that frame by the first run.
C12_RerunIdempotent ==
  run >= 2 =>
    /\ wpc # "idle" => keys = first_keys
    /\ bpc # "idle" => ball_keys = first_ball_keys
    /\ (wpc = "frames" /\ frame > 1) =>
         \A p \in PosedParts : location[p] = first_keys[frame - 1][p]["location"]
    /\ (bpc = "frame" /\ frame > 1 /\ ball_present) => ball = first_ball_keys[frame - 1]

\* the second run of the walk of a complete rig is over: all 60 frames were
\* keyed by the first run and keyed again by the second
C12_Witness ==
  /\ run = 2
  /\ wpc = "done"
  /\ Parts \subseteq present
  /\ \A f \in WalkFrames : \A p \in Parts : first_keys[f][p]["location"] # NoKey
  /\ first_keys[60]["Body"]["location"][1] = 3 * Unit
  /\ Key("Body", "location", 60)[1] = 3 * Unit

(* the order of the frames *)

\* frames of the bounce whose loop body is over in this run
BallFramesVisited ==
  IF bpc = "done" THEN BounceFrames
  ELSE IF bpc \in {"frame", "loop", "post"}
  THEN {frame_range[k] : k \in 1 .. (IndexIn(frame_range, frame) - 1)}
  ELSE {}

Drop(t) == MulDivWide(t * t, 4900000, 576000000)

\* the time examined is past the fall after m rebounds: what is left of it after
\* the earlier falls exceeds that fall's time sqrt(2 * h_m / g)
PastEpoch(m) == time - EpochEnd(m - 1) > FallTime(EpochPeak(m))

\* C20: for any time the loop ends in the first epoch n whose fall time
\* sqrt(2 * h_n / g) is at least the time left after the earlier falls, a time
\* equal to the fall time staying in the ending epoch; the local time is that
\* remainder and the height is max(r, h_n - 0.5 * g * local_time^2).  At time 0
\* no loop body runs and the height is h0 = 2.0.  Past the last epoch whose
\* peak reaches 0.01 the ball lies at height r.
C20_ActiveEpoch ==
  bpc = "done" =>
    /\ time = 0 => (iterations = 0 /\ bounce_index = 0 /\ ball.location[3] = 2000000)
    /\ remaining_height # 0 =>
         /\ \A m \in 0 .. (bounce_index - 1) : PastEpoch(m)
         /\ ~ PastEpoch(bounce_index)
         /\ bounce_time = time - EpochEnd(bounce_index - 1)
         /\ ball.location[3] = Max(500000, EpochPeak(bounce_index) - Drop(bounce_time))
    /\ remaining_height = 0 =>
         /\ \A m \in 0 .. (bounce_index - 1) : PastEpoch(m)
         /\ EpochPeak(bounce_index) < 10000
         /\ ball.location[3] = 500000

\* the time examined is exactly the first fall time sqrt(2 * 2.0 / 9.8): the
\* loop ends in its first body, in epoch 0, with the ball on the ground
C20_Witness ==
  /\ bpc = "done"
  /\ time = FallTime(InitialHeight)
  /\ time = EpochEnd(0)
  /\ iterations = 1
  /\ bounce_index = 0
  /\ bounce_time = time
  /\ ball.location[3] = BallRadius

(* the bounce index *)

\* number of the last fall whose peak reaches 0.01: 2.0 * 0.49^7 = 0.0135
LastEpoch == 7

\* the times at which the falls 0 .. LastEpoch end, in ticks
EpochEnds == [n \in 0 .. LastEpoch |-> EpochEnd(n)]

\* number of falls that are over at time t
EpochsPassed(t) == Cardinality({n \in 0 .. LastEpoch : EpochEnds[n] < t})

\* C21: the bounce index recorded for a frame is the number of falls that are
\* over at the frame's time f / 24 whatever frames the loop visited before it,
\* it does not decrease from a frame to a later one, and each frame's
\* decomposition starts from bounce_time 0, the height 2.0 and the frame's time.
C21_BounceIndexFromScratch ==
  /\ \A f \in BallFramesVisited :
       ball_present => decomp[f].bounce_index = EpochsPassed(Time(f))
  /\ \A f \in BallFramesVisited : \A g \in BallFramesVisited :
       (ball_present /\ f < g) => decomp[f].bounce_index <= decomp[g].bounce_index
  /\ (bpc = "loop" /\ iterations = 0) =>
       /\ bounce_time = 0
       /\ remaining_height = InitialHeight
       /\ current_time = Time(frame)
       /\ bounce_index = 0

\* the bounce runs backwards after a run over 1..120: frame 120, settled after
\* eight rebounds, was decomposed before frame 16, which is in the first
\* rebound, and frame 15 starts from scratch
C21_Witness ==
  /\ run = 2
  /\ ball_present
  /\ frame_range = Backwards(120)
  /\ bpc = "loop"
  /\ frame = 15
  /\ iterations = 0
  /\ {16, 120} \subseteq BallFramesVisited
  /\ decomp[120].bounce_index = 8
  /\ decomp[120].settled
  /\ decomp[16].bounce_index = 1
  /\ remaining_height = InitialHeight

(* parts mounted on the head and on the body *)

\* the object each mounted part sits on
MountOf(p) == IF p = "Hump" THEN "Body" ELSE "Head"

MountedParts == {"Eye_L", "Eye_R", "Ear_L", "Ear_R", "Snout", "Hump"}

\* position of part p relative to the object it sits on, in the keyframes of frame f
KeyedOffset(p, f, axis) == Key(p, "location", f)[axis] - Key(MountOf(p), "location", f)[axis]

CameraFramesDone == {f \in BounceFrames : camera_keys[f] # NoKey}

\* C23: at every frame the camera is keyed at, camera x minus the keyed x of
\* the body is 5 in the camel scene and camera x minus the keyed x of the ball
\* is 8 in the ball scene; when the camera or the body or ball is absent the
\* camera gets no constraint and no keyframe.
C23_CameraLead ==
  /\ \A f \in CameraFramesDone :
       /\ wpc # "idle" => camera_keys[f][1] - Key("Body", "location", f)[1] = 5 * Unit
       /\ bpc # "idle" => camera_keys[f][1] - ball_keys[f].location[1] = 8 * Unit
  /\ (wpc # "idle" /\ ~ (camera_present /\ "Body" \in present))
       => (constraints = <<>> /\ CameraFramesDone = {})
  /\ (bpc # "idle" /\ ~ (camera_present /\ ball_present))
       => (constraints = <<>> /\ CameraFramesDone = {})
  /\ cpc = "done" =>
       /\ (wpc # "idle" /\ camera_present /\ "Body" \in present)
            => (constraints = <<"Body">> /\ CameraFramesDone = WalkFrames)
       /\ (bpc # "idle" /\ camera_present /\ ball_present)
            => (constraints = <<"Ball">> /\ CameraFramesDone = BounceFrames)

\* the camera of the camel scene has followed the body to the last frame, where
\* the body is keyed at x = 3 and the camera at x = 8
C23_Witness ==
  /\ cpc = "done"
  /\ wpc = "done"
  /\ camera_present
  /\ constraints = <<"Body">>
  /\ Key("Body", "location", 60)[1] = 3 * Unit
  /\ camera_keys[60] = <<8 * Unit, Neg(5 * Unit), 3 * Unit>>
  /\ camera_keys[1][1] = 5050000

(* waiting for an asset *)

\* the step is a poll of wait_for_asset: the loop test held
IsPoll == upc = "wait" /\ elapsed < WaitTimeout

ItemIndex(name) == CHOOSE k \in 1 .. Len(UploadItems) : UploadItems[k] = name

\* how many of the five uploads upload_workflow has dealt with
ItemsExamined == IF upc = "done" THEN Len(UploadItems) ELSE item - 1

C26_TotalIsFramesRendered ==
  rpc = "done" => total_frames = Cardinality(rendered)

(* the height from frame to frame *)

\* the keyed height of the ball at frame f
KeyedHeight(f) == ball_keys[f].location[3]

\* C27: from a frame to the next one in the same bounce epoch the keyed height
\* of the ball does not increase; it increases only across an epoch boundary,
\* from the floor r = 0.5 to a height that is at most the peak of the epoch
\* entered.
C27_FallingWithinEpoch ==
  \A f \in BallFramesDone :
    (f + 1) \in BallFramesDone =>
      /\ decomp[f + 1].bounce_index = decomp[f].bounce_index
           => KeyedHeight(f + 1) <= KeyedHeight(f)
      /\ KeyedHeight(f + 1) > KeyedHeight(f) =>
           /\ decomp[f + 1].bounce_index > decomp[f].bounce_index
           /\ KeyedHeight(f) = BallRadius
           /\ KeyedHeight(f + 1) <= EpochPeak(decomp[f + 1].bounce_index)

\* frame 15 ends the first fall on the floor, frame 16 is in the first rebound
\* near its peak 0.98, and frame 17 is lower again
C27_Witness ==
  /\ {15, 16, 17} \subseteq BallFramesDone
  /\ decomp[15].bounce_index = 0
  /\ decomp[16].bounce_index = 1
  /\ decomp[17].bounce_index = 1
  /\ KeyedHeight(15) = BallRadius
  /\ KeyedHeight(16) > 970000
  /\ KeyedHeight(17) < KeyedHeight(16)

(* epochs whose peak is below the ball radius *)

\* C28: at every frame whose epoch has a peak of at most r = 0.5, which are the
\* epochs 2 and later, the keyed height is exactly r, so the height is r at
\* every frame from the end of epoch 1 on; the decomposition reports the ball
\* settled only from the epoch whose peak is below 0.01.
C28_AtRestBeforeSettled ==
  \A f \in BallFramesDone :
    /\ EpochPeak(decomp[f].bounce_index) <= BallRadius <=> decomp[f].bounce_index >= 2
    /\ ~ decomp[f].settled => decomp[f].remaining_height = EpochPeak(decomp[f].bounce_index)
    /\ decomp[f].remaining_height <= BallRadius => KeyedHeight(f) = BallRadius
    /\ Time(f) >= EpochEnds[1] => KeyedHeight(f) = BallRadius
    /\ decomp[f].settled <=> EpochPeak(decomp[f].bounce_index) < SettleThreshold

\* frame 30 is in epoch 2 (peak 0.4802) at height 0.5 and not settled, frame 48
\* is in epoch 7, still not settled, and frame 49 is the first settled one
C28_Witness ==
  /\ {30, 48, 49} \subseteq BallFramesDone
  /\ decomp[30].bounce_index = 2
  /\ decomp[30].remaining_height = 480200
  /\ ~ decomp[30].settled
  /\ KeyedHeight(30) = BallRadius
  /\ decomp[48].bounce_index = 7
  /\ ~ decomp[48].settled
  /\ KeyedHeight(48) = BallRadius
  /\ decomp[49].settled

(* the scale of the ball *)

\* the keyed scale of the ball at frame f
KeyedScale(f) == ball_keys[f].scale

\* C29: at every frame the keyed scale has z in [0.95, 1] and x = y in
\* [1, 1.025]; at every frame whose height is the floor r = 0.5, which includes
\* every settled frame, the keyed scale is (1.025, 1.025, 0.95), not the
\* identity.
C29_ScaleBounds ==
  \A f \in BallFramesDone :
    /\ KeyedScale(f)[3] >= 950000 /\ KeyedScale(f)[3] <= Unit
    /\ KeyedScale(f)[1] = KeyedScale(f)[2]
    /\ KeyedScale(f)[1] >= Unit /\ KeyedScale(f)[1] <= 1025000
    /\ KeyedHeight(f) = BallRadius => KeyedScale(f) = <<1025000, 1025000, 950000>>
    /\ decomp[f].settled => KeyedHeight(f) = BallRadius

\* the bounce is over: the first frame has the identity scale, frame 13 a
\* squash between the bounds, and the last frame, settled on the floor, the
\* full squash
C29_Witness ==
  /\ bpc = "done"
  /\ BallFramesDone = BounceFrames
  /\ KeyedScale(1) = <<Unit, Unit, Unit>>
  /\ KeyedScale(13)[3] > 950000 /\ KeyedScale(13)[3] < Unit
  /\ decomp[120].settled
  /\ KeyedHeight(120) = BallRadius
  /\ KeyedScale(120) = <<1025000, 1025000, 950000>>

(* the parts of a leg *)

\* C30: at every frame the upper part, the lower part and the hoof of an
\* animated leg are keyed at the same x and at 0.85, 0.3 and 0.05 plus the same
\* lift, so at their rest spacing; a leg whose three parts are all in the scene
\* is keyed at every frame, and of a leg that lacks a part no part has a
\* keyframe.
C30_LegPartsStacked ==
  \A i \in LegIndex :
    /\ \A f \in FramesDone :
         LegPartNames(i) \subseteq present =>
           /\ \A p \in LegPartNames(i) : Key(p, "location", f) # NoKey
           /\ Key(LegLowerName(i), "location", f)[1] = Key(LegUpperName(i), "location", f)[1]
           /\ Key(HoofName(i), "location", f)[1] = Key(LegUpperName(i), "location", f)[1]
           /\ Key(LegUpperName(i), "location", f)[3] - 850000
                = Key(LegLowerName(i), "location", f)[3] - 300000
           /\ Key(LegUpperName(i), "location", f)[3] - 850000
                = Key(HoofName(i), "location", f)[3] - 50000
           /\ Key(HoofName(i), "location", f)[3] >= 50000
    /\ ~ (LegPartNames(i) \subseteq present) =>
         \A f \in WalkFrames : \A p \in LegPartNames(i) : \A d \in DataPaths :
           Key(p, d, f) = NoKey

\* the walk of a rig without the lower part of leg BL is over: at frame 15 leg
\* FL is keyed at peak lift with its three parts 0.15 above their rest heights,
\* and the upper part and the hoof of leg BL are in the scene without a keyframe
C30_Witness ==
  /\ wpc = "done"
  /\ present = Objects \ {"LegLower_2"}
  /\ Key("LegUpper_0", "location", 15)[3] = 1000000
  /\ Key("LegLower_0", "location", 15)[3] = 450000
  /\ Key("Hoof_0", "location", 15)[3] = 200000
  /\ Key("Hoof_0", "location", 15)[1] = Key("LegUpper_0", "location", 15)[1]
  /\ Key("LegUpper_2", "location", 15) = NoKey
  /\ Key("Hoof_2", "location", 60) = NoKey

====
